---- MODULE Spec2Model ----
(***************************************************************************)
(* Model of the path synchronization engine of chaser:                     *)
(*   src/src/target_files.rs  (TargetFile, format adapters)                *)
(*   src/src/path_sync.rs     (PathSyncManager, background worker)         *)
(*                                                                         *)
(* Strings are sequences of one-character strings, so that textual         *)
(* prefixes (str::starts_with), component-wise prefixes (Path::starts_with)*)
(* and CSV field splitting are computed, not assumed.                      *)
(***************************************************************************)
EXTENDS Naturals, Integers, Sequences, FiniteSets, TLC

VARIABLES disk, fs, manager, target_files, path_mappings, watcher, workers, last,
          config, watches, threads, journal

vars == <<disk, fs, manager, target_files, path_mappings, watcher, workers, last,
          config, watches, threads, journal>>

(***************************************************************************)
(* Bounds of the model.                                                    *)
(***************************************************************************)
MaxPathLen == 8
MaxQueue == 1
MaxWorkers == 1
MaxStarts == 2
MaxStrLen == 3
MaxThreads == 3
MaxIters == 2
MaxEvents == 3
MaxPending == 2

(***************************************************************************)
(* Strings.                                                                *)
(***************************************************************************)
None == <<"None">>

IsPrefix(p, s) == Len(p) <= Len(s) /\ SubSeq(s, 1, Len(p)) = p

ContainsChar(s, c) == \E i \in 1..Len(s) : s[i] = c

\* index of the first occurrence of c in s, Len(s)+1 when there is none
FirstIndex(s, c) ==
  IF ContainsChar(s, c)
    THEN CHOOSE i \in 1..Len(s) : s[i] = c /\ \A j \in 1..(i-1) : s[j] # c
    ELSE Len(s) + 1

RECURSIVE SplitOn(_, _)
SplitOn(s, c) ==
  IF ~ContainsChar(s, c) THEN <<s>>
  ELSE LET n == FirstIndex(s, c)
       IN <<SubSeq(s, 1, n-1)>> \o SplitOn(SubSeq(s, n+1, Len(s)), c)

RECURSIVE JoinWith(_, _)
JoinWith(parts, c) ==
  IF parts = <<>> THEN <<>>
  ELSE IF Len(parts) = 1 THEN parts[1]
  ELSE parts[1] \o <<c>> \o JoinWith(Tail(parts), c)

RECURSIVE DropEmpty(_)
DropEmpty(parts) ==
  IF parts = <<>> THEN <<>>
  ELSE IF parts[1] = <<>> THEN DropEmpty(Tail(parts))
  ELSE <<parts[1]>> \o DropEmpty(Tail(parts))

(***************************************************************************)
(* std::path::Path on a Unix build: components, starts_with, strip_prefix, *)
(* join.  The root directory is the component <<"/">>.                     *)
(***************************************************************************)
HasRoot(s) == s # <<>> /\ s[1] = "/"

Components(s) ==
  (IF HasRoot(s) THEN << <<"/">> >> ELSE <<>>) \o DropEmpty(SplitOn(s, "/"))

PathStartsWith(p, base) == IsPrefix(Components(base), Components(p))

\* Path::strip_prefix: the remainder as a relative path, or an error
StripPrefix(p, base) ==
  IF PathStartsWith(p, base)
    THEN [ok |-> TRUE,
          rel |-> JoinWith(SubSeq(Components(p), Len(Components(base)) + 1,
                                  Len(Components(p))), "/")]
    ELSE [ok |-> FALSE, rel |-> <<>>]

\* PathBuf::join (PathBuf::push on a clone)
PathJoin(base, rel) ==
  IF HasRoot(rel) THEN rel
  ELSE IF base = <<>> \/ base[Len(base)] = "/" THEN base \o rel
  ELSE base \o <<"/">> \o rel

\* Path::exists against the modelled filesystem
PathExists(p, files) == p \in files

\* Path::canonicalize().unwrap_or_else(|_| PathBuf::from(p)) on a filesystem
\* without symbolic links: an existing absolute path is returned in
\* normalised form, a missing one is returned as written.
Canonicalize(p, files) ==
  IF PathExists(p, files) /\ HasRoot(p)
    THEN <<"/">> \o JoinWith(Tail(Components(p)), "/")
    ELSE p

(***************************************************************************)
(* target_files.rs: values of a JSON / YAML / TOML document.               *)
(*   [k |-> "s", s |-> string]       a scalar string                       *)
(*   [k |-> "n"]                     any other scalar                      *)
(*   [k |-> "a", items |-> <<v..>>]  array / sequence                      *)
(*   [k |-> "o", fields |-> <<[key, val]..>>]  object / mapping / table    *)
(***************************************************************************)
VStr(s) == [k |-> "s", s |-> s]
VNum == [k |-> "n"]
VArr(items) == [k |-> "a", items |-> items]
VObj(fields) == [k |-> "o", fields |-> fields]

Windows == FALSE

\* as looks_like_path_on, but the backslash is not taken for a separator
looks_like_path_on_SlashOnly(windows, s) ==
  IF s = <<>> THEN FALSE
  ELSE \/ ContainsChar(s, "/")
       \/ (windows /\ Len(s) > 2 /\ s[2] = ":")

\* looks_like_path as compiled for Windows (cfg!(windows) true) or for
\* another target
looks_like_path_on(windows, s) ==
  IF s = <<>> THEN FALSE
  ELSE \/ ContainsChar(s, "/")
       \/ ContainsChar(s, "\\")
       \/ IsPrefix(<<".", "/">>, s)
       \/ IsPrefix(<<".", ".", "/">>, s)
       \/ IsPrefix(<<"~", "/">>, s)
       \/ IsPrefix(<<"/">>, s)
       \/ (windows /\ Len(s) > 2 /\ s[2] = ":")

looks_like_path(s) == looks_like_path_on(Windows, s)

RECURSIVE collect_paths_from_value(_)
collect_paths_from_value(value) ==
  IF value.k = "s" THEN (IF looks_like_path(value.s) THEN <<value.s>> ELSE <<>>)
  ELSE IF value.k = "a" THEN
    LET RECURSIVE Each(_)
        Each(items) == IF items = <<>> THEN <<>>
                       ELSE collect_paths_from_value(items[1]) \o Each(Tail(items))
    IN Each(value.items)
  ELSE IF value.k = "o" THEN
    LET RECURSIVE EachF(_)
        EachF(fields) == IF fields = <<>> THEN <<>>
                         ELSE collect_paths_from_value(fields[1].val) \o EachF(Tail(fields))
    IN EachF(value.fields)
  ELSE <<>>

\* as update_value, replacing old_path also where it is the leading part of
\* a longer string
RECURSIVE update_value_LeadingSubstring(_, _, _)
update_value_LeadingSubstring(value, old_path, new_path) ==
  IF value.k = "s"
    THEN (IF IsPrefix(old_path, value.s)
            THEN VStr(new_path \o SubSeq(value.s, Len(old_path) + 1, Len(value.s)))
            ELSE value)
  ELSE IF value.k = "a" THEN
    VArr([i \in 1..Len(value.items) |->
            update_value_LeadingSubstring(value.items[i], old_path, new_path)])
  ELSE IF value.k = "o" THEN
    VObj([i \in 1..Len(value.fields) |->
            [key |-> value.fields[i].key,
             val |-> update_value_LeadingSubstring(value.fields[i].val, old_path, new_path)]])
  ELSE value

\* as update_value, without the descent into nested arrays
update_value_TopLevelOnly(value, old_path, new_path) ==
  IF value.k = "s" THEN (IF value.s = old_path THEN VStr(new_path) ELSE value)
  ELSE IF value.k = "a" \/ value.k = "o" THEN
    LET Shallow(v) == IF v.k = "s" /\ v.s = old_path THEN VStr(new_path) ELSE v
    IN IF value.k = "a"
         THEN VArr([i \in 1..Len(value.items) |-> Shallow(value.items[i])])
         ELSE VObj([i \in 1..Len(value.fields) |->
                      [key |-> value.fields[i].key, val |-> Shallow(value.fields[i].val)]])
  ELSE value

RECURSIVE update_value(_, _, _)
update_value(value, old_path, new_path) ==
  IF value.k = "s" THEN (IF value.s = old_path THEN VStr(new_path) ELSE value)
  ELSE IF value.k = "a" THEN
    VArr([i \in 1..Len(value.items) |-> update_value(value.items[i], old_path, new_path)])
  ELSE IF value.k = "o" THEN
    VObj([i \in 1..Len(value.fields) |->
            [key |-> value.fields[i].key,
             val |-> update_value(value.fields[i].val, old_path, new_path)]])
  ELSE value

(***************************************************************************)
(* CSV.  A file is a sequence of lines; csv::Reader (has_headers = true)   *)
(* skips the first line, splits a record at the commas outside quotes and  *)
(* removes the quotes around a quoted field.                               *)
(***************************************************************************)
\* rest: unread text, cur: the field being read, inq: inside quotes
RECURSIVE CsvScan(_, _, _)
CsvScan(rest, cur, inq) ==
  IF rest = <<>> THEN <<cur>>
  ELSE IF rest[1] = "\"" THEN CsvScan(Tail(rest), cur, ~inq)
  ELSE IF rest[1] = "," /\ ~inq THEN <<cur>> \o CsvScan(Tail(rest), <<>>, FALSE)
  ELSE CsvScan(Tail(rest), cur \o <<rest[1]>>, inq)

CsvFields(line) == CsvScan(line, <<>>, FALSE)

RECURSIVE FilterPaths(_)
FilterPaths(strs) ==
  IF strs = <<>> THEN <<>>
  ELSE (IF looks_like_path(strs[1]) THEN <<strs[1]>> ELSE <<>>) \o FilterPaths(Tail(strs))

RECURSIVE CsvRecordsPaths(_)
CsvRecordsPaths(lines) ==
  IF lines = <<>> THEN <<>>
  ELSE FilterPaths(CsvFields(lines[1])) \o CsvRecordsPaths(Tail(lines))

\* a file content is [canon, body, st]: body is the parsed document (a value,
\* or the lines of a CSV file), canon tells whether the bytes are exactly
\* what the format's writer produces for that document, and st is "ok" for a
\* file that fs::read_to_string and the format's parser accept.
Content(canon, body) == [canon |-> canon, body |-> body, st |-> "ok"]

\* a file that fs::read_to_string or the format's parser rejects
Malformed(body) == [canon |-> FALSE, body |-> body, st |-> "malformed"]

\* no file at the target file's path
Absent(body) == [canon |-> FALSE, body |-> body, st |-> "absent"]

\* csv::Reader (flexible = false): every record has as many fields as the
\* first one
csv_records_ok(lines) ==
  \A n \in 2..Len(lines) : Len(CsvFields(lines[n])) = Len(CsvFields(lines[1]))

MkEntry(p, files) == [path |-> p, exists |-> PathExists(p, files), last_known_path |-> None]

extract_paths_from_csv(content, files) ==
  LET lines == content.body
      ps == IF lines = <<>> THEN <<>> ELSE CsvRecordsPaths(Tail(lines))
  IN [i \in 1..Len(ps) |-> MkEntry(ps[i], files)]

extract_paths_from_json(content, files) ==
  LET ps == collect_paths_from_value(content.body)
  IN [i \in 1..Len(ps) |-> MkEntry(ps[i], files)]

\* the Ok value of extract_paths
extract_paths(format, content, files) ==
  IF content.st = "absent" THEN <<>>
  ELSE IF format = "csv" THEN extract_paths_from_csv(content, files)
  ELSE extract_paths_from_json(content, files)

\* TargetFile::new returns Err: from_path rejects the extension, or the file
\* cannot be read or parsed
load_fails(format, content) ==
  \/ format \notin {"json", "yaml", "toml", "csv"}
  \/ content.st = "malformed"
  \/ format = "csv" /\ content.st = "ok" /\ ~csv_records_ok(content.body)

\* TargetFile::new for a file of a supported format
TargetFileNew(format, content, files) ==
  [format |-> format, paths |-> extract_paths(format, content, files)]

update_csv_line(line, old_path, new_path) ==
  IF IsPrefix(old_path, line)
    THEN new_path \o SubSeq(line, Len(old_path) + 1, Len(line))
    ELSE line

update_csv_content(content, old_path, new_path) ==
  LET lines == content.body
  IN IF lines = <<>> THEN content
     ELSE Content(TRUE,
            [i \in 1..Len(lines) |->
               IF i = 1 THEN lines[1] ELSE update_csv_line(lines[i], old_path, new_path)])

update_json_content(content, old_path, new_path) ==
  Content(TRUE, update_value(content.body, old_path, new_path))

\* the Ok value of update_file_content: the content it leaves on disk
update_file_content(format, content, old_path, new_path) ==
  IF content.st = "absent" THEN content
  ELSE IF format = "csv" THEN update_csv_content(content, old_path, new_path)
  ELSE update_json_content(content, old_path, new_path)

\* update_file_content returns Err (the read or the parse fails) and writes
\* nothing
update_fails(format, content) == content.st = "malformed"

update_entries(paths, old_path, new_path, files) ==
  [i \in 1..Len(paths) |->
     IF paths[i].path = old_path
       THEN [path |-> new_path,
             exists |-> PathExists(new_path, files),
             last_known_path |-> paths[i].path]
       ELSE paths[i]]

\* as update_path, but the entries are only changed once the file has been
\* rewritten
update_path_RewriteFirst(tf, content, old_path, new_path, files) ==
  [tf |-> IF update_fails(tf.format, content) THEN tf
          ELSE [tf EXCEPT !.paths = update_entries(tf.paths, old_path, new_path, files)],
   content |-> IF update_fails(tf.format, content) THEN content
               ELSE update_file_content(tf.format, content, old_path, new_path),
   ok |-> ~update_fails(tf.format, content)]

\* TargetFile::update_path: the new TargetFile, the new file content and
\* whether the call returned Ok; the entries are updated before the content
update_path(tf, content, old_path, new_path, files) ==
  [tf |-> [tf EXCEPT !.paths = update_entries(tf.paths, old_path, new_path, files)],
   content |-> IF update_fails(tf.format, content) THEN content
               ELSE update_file_content(tf.format, content, old_path, new_path),
   ok |-> ~update_fails(tf.format, content)]

\* as mark_path_deleted, but an entry counts as matching when its path begins
\* with the given text
mark_path_deleted_LeadingText(tf, path) ==
  [tf EXCEPT !.paths = [i \in 1..Len(tf.paths) |->
     IF IsPrefix(path, tf.paths[i].path) THEN [tf.paths[i] EXCEPT !.exists = FALSE]
     ELSE tf.paths[i]]]

mark_path_deleted(tf, path) ==
  [tf EXCEPT !.paths = [i \in 1..Len(tf.paths) |->
     IF tf.paths[i].path = path THEN [tf.paths[i] EXCEPT !.exists = FALSE]
     ELSE tf.paths[i]]]

mark_path_restored(tf, path) ==
  [tf EXCEPT !.paths = [i \in 1..Len(tf.paths) |->
     IF tf.paths[i].path = path THEN [tf.paths[i] EXCEPT !.exists = TRUE]
     ELSE tf.paths[i]]]

(***************************************************************************)
(* path_sync.rs: PathMapping, PathSyncManager.                             *)
(* The Path Index is a function from keys to PathMapping records; a        *)
(* mapping's target_files is the Vec<usize> of the source (indices start   *)
(* at 1 here).                                                             *)
(***************************************************************************)
EmptyMap == [k \in {} |-> 0]

MapPut(pm, key, m) == [k \in (DOMAIN pm) \cup {key} |-> IF k = key THEN m ELSE pm[k]]

MapRemove(pm, key) == [k \in (DOMAIN pm) \ {key} |-> pm[k]]

PathMapping(path_key, exists, index) ==
  [original_path |-> path_key, current_path |-> path_key,
   exists |-> exists, target_files |-> <<index>>]

InWatchDirs(path, watch_paths, files) ==
  \E i \in 1..Len(watch_paths) :
     \/ PathStartsWith(Canonicalize(path, files), Canonicalize(watch_paths[i], files))
     \/ PathStartsWith(path, watch_paths[i])

filter_paths_in_watch_dirs(paths, watch_paths, files) ==
  LET Keep(e) == InWatchDirs(e.path, watch_paths, files)
  IN SelectSeq(paths, Keep)

\* as IndexEntries, but a path that is indexed already gets a fresh mapping
\* in place of the existing one
RECURSIVE IndexEntries_Overwrites(_, _, _)
IndexEntries_Overwrites(pm, valid_paths, index) ==
  IF valid_paths = <<>> THEN pm
  ELSE IndexEntries_Overwrites(
         MapPut(pm, valid_paths[1].path,
                PathMapping(valid_paths[1].path, valid_paths[1].exists, index)),
         Tail(valid_paths), index)

\* the indexing loop of new() and refresh() for one target file
RECURSIVE IndexEntries(_, _, _)
IndexEntries(pm, valid_paths, index) ==
  IF valid_paths = <<>> THEN pm
  ELSE LET path_key == valid_paths[1].path
           pm1 == IF path_key \in DOMAIN pm
                    THEN [pm EXCEPT ![path_key].target_files = Append(@, index)]
                    ELSE MapPut(pm, path_key,
                                PathMapping(path_key, valid_paths[1].exists, index))
       IN IndexEntries(pm1, Tail(valid_paths), index)

RECURSIVE IndexFiles(_, _, _, _, _)
IndexFiles(pm, tfs, index, watch_paths, files) ==
  IF index > Len(tfs) THEN pm
  ELSE IndexFiles(
         IndexEntries(pm, filter_paths_in_watch_dirs(tfs[index].paths, watch_paths, files),
                      index),
         tfs, index + 1, watch_paths, files)

\* what create_empty_target_file writes for a missing target file
EmptyContent(format) ==
  IF format = "json" THEN Content(TRUE, VArr(<<>>))
  ELSE IF format \in {"yaml", "toml"}
    THEN Content(FALSE, VObj(<<[key |-> <<"p", "a", "t", "h", "s">>, val |-> VArr(<<>>)]>>))
  ELSE IF format = "csv"
    THEN Content(TRUE, << <<"p", "a", "t", "h", ",", "t", "y", "p", "e">> >>)
  ELSE Content(TRUE, <<>>)

\* the least element of a non-empty set of numbers
Least(S) == CHOOSE n \in S : \A m \in S : n <= m

\* PathSyncManager::new on the files on disk: whether it returns a manager,
\* the manager's structures, and the files it leaves on disk (a missing
\* target file is created empty before it is loaded; the first file that
\* fails to load ends the call)
ManagerNew(formats, contents, watch_paths, files) ==
  LET created == [i \in 1..Len(contents) |->
                    IF contents[i].st = "absent" THEN EmptyContent(formats[i])
                    ELSE contents[i]]
      bad == {i \in 1..Len(contents) : load_fails(formats[i], created[i])}
      tfs == [i \in 1..Len(contents) |-> TargetFileNew(formats[i], created[i], files)]
  IN IF bad = {}
       THEN [ok |-> TRUE, disk |-> created, target_files |-> tfs,
             path_mappings |-> IndexFiles(EmptyMap, tfs, 1, watch_paths, files)]
       ELSE [ok |-> FALSE,
             disk |-> [i \in 1..Len(contents) |->
                         IF i <= Least(bad) THEN created[i] ELSE contents[i]],
             target_files |-> <<>>, path_mappings |-> EmptyMap]

\* as refresh, without self.path_mappings.clear()
refresh_KeepsMappings(tfs, pm, contents, watch_paths, files) ==
  LET bad == {i \in 1..Len(tfs) : load_fails(tfs[i].format, contents[i])}
      stop == IF bad = {} THEN Len(tfs) + 1 ELSE Least(bad)
      tfs1 == [i \in 1..Len(tfs) |->
                 IF i < stop THEN TargetFileNew(tfs[i].format, contents[i], files)
                 ELSE tfs[i]]
  IN IF bad = {}
       THEN [ok |-> TRUE, tfs |-> tfs1,
             pm |-> IndexFiles(pm, tfs1, 1, watch_paths, files)]
       ELSE [ok |-> FALSE, tfs |-> tfs1, pm |-> pm]

\* refresh(): the target files are reloaded in place one after the other and
\* the first Err returns at once; after the last one the index is cleared
\* and rebuilt
refresh(tfs, pm, contents, watch_paths, files) ==
  LET bad == {i \in 1..Len(tfs) : load_fails(tfs[i].format, contents[i])}
      stop == IF bad = {} THEN Len(tfs) + 1 ELSE Least(bad)
      tfs1 == [i \in 1..Len(tfs) |->
                 IF i < stop THEN TargetFileNew(tfs[i].format, contents[i], files)
                 ELSE tfs[i]]
  IN IF bad = {}
       THEN [ok |-> TRUE, tfs |-> tfs1,
             pm |-> IndexFiles(EmptyMap, tfs1, 1, watch_paths, files)]
       ELSE [ok |-> FALSE, tfs |-> tfs1, pm |-> pm]

(***************************************************************************)
(* sync_path_change.                                                       *)
(***************************************************************************)
should_update(current_key, old_path, files) ==
  IF current_key = old_path THEN TRUE
  ELSE \/ PathStartsWith(Canonicalize(current_key, files), Canonicalize(old_path, files))
       \/ PathStartsWith(current_key, old_path)

\* as new_key_for, dropping the remainder below old_path
new_key_for_NoRemainder(current_key, old_path, new_path, files) ==
  IF should_update(current_key, old_path, files) THEN new_path ELSE current_key

new_key_for(current_key, old_path, new_path, files) ==
  IF current_key = old_path THEN new_path
  ELSE LET r == StripPrefix(current_key, old_path)
       IN IF r.ok THEN PathJoin(new_path, r.rel)
          ELSE LET rc == StripPrefix(Canonicalize(current_key, files),
                                     Canonicalize(old_path, files))
               IN IF rc.ok THEN PathJoin(new_path, rc.rel) ELSE current_key

\* the iteration orders a HashMap may yield for the keys in S
Orders(S) ==
  {o \in [1..Cardinality(S) -> S] : \A i, j \in 1..Cardinality(S) : i # j => o[i] # o[j]}

\* as MovedMapping, but the clone keeps its old current_path
MovedMapping_StaleCurrentPath(mapping, new_key, files) ==
  [mapping EXCEPT !.exists = PathExists(new_key, files)]

\* "Update the mapping": the clone that is reinserted under the new key
MovedMapping(mapping, new_key, files) ==
  [mapping EXCEPT !.current_path = new_key, !.exists = PathExists(new_key, files)]

\* update_path on every owning target file of one mapping, in Vec order; the
\* first Err ends the loop (and, with st.ok, the whole call)
RECURSIVE UpdateOwners(_, _, _, _, _)
UpdateOwners(st, owners, old_key, new_key, files) ==
  IF owners = <<>> \/ ~st.ok THEN st
  ELSE LET idx == owners[1]
           r == update_path(st.tfs[idx], st.disk[idx], old_key, new_key, files)
       IN UpdateOwners([st EXCEPT !.tfs[idx] = r.tf, !.disk[idx] = r.content,
                                  !.ok = r.ok],
                       Tail(owners), old_key, new_key, files)

\* the second loop of sync_path_change; todo holds (old_key, new_key, mapping)
RECURSIVE ApplyUpdates(_, _, _)
ApplyUpdates(st, todo, files) ==
  IF todo = <<>> THEN st
  ELSE LET u == todo[1]
           st1 == UpdateOwners(st, u.mapping.target_files, u.old_key, u.new_key, files)
           mapping == MovedMapping(u.mapping, u.new_key, files)
           pm1 == MapPut(MapRemove(st1.pm, u.old_key), u.new_key, mapping)
       IN IF ~st1.ok THEN st1
          ELSE ApplyUpdates([st1 EXCEPT !.pm = pm1], Tail(todo), files)

PathsToUpdate(pm, old_path, files) ==
  {k \in DOMAIN pm : should_update(k, old_path, files)}

\* as sync_path_change, but an untracked old_path starts tracking new_path
\* instead of returning early
sync_path_change_TrackWhenMissing(tfs, pm, contents, old_path, new_path, files) ==
  LET keys == PathsToUpdate(pm, old_path, files)
      st == [tfs |-> tfs, pm |-> pm, disk |-> contents, ok |-> TRUE]
  IN IF keys = {}
       THEN {[st EXCEPT !.pm = MapPut(pm, new_path,
                                      PathMapping(new_path, PathExists(new_path, files), 1))]}
     ELSE {ApplyUpdates(st,
             [i \in 1..Cardinality(keys) |->
                [old_key |-> o[i],
                 new_key |-> new_key_for(o[i], old_path, new_path, files),
                 mapping |-> pm[o[i]]]],
             files) : o \in Orders(keys)}

\* the results sync_path_change(old_path, new_path) can produce: the
\* structures and files it leaves, and whether it returned Ok
sync_path_change(tfs, pm, contents, old_path, new_path, files) ==
  LET keys == PathsToUpdate(pm, old_path, files)
      st == [tfs |-> tfs, pm |-> pm, disk |-> contents, ok |-> TRUE]
  IN IF keys = {} THEN {st}
     ELSE {ApplyUpdates(st,
             [i \in 1..Cardinality(keys) |->
                [old_key |-> o[i],
                 new_key |-> new_key_for(o[i], old_path, new_path, files),
                 mapping |-> pm[o[i]]]],
             files) : o \in Orders(keys)}

get_path_status(tfs, pm) ==
  {<<k, pm[k].exists, pm[k].target_files>> : k \in DOMAIN pm}

(***************************************************************************)
(* Background worker: handle_event and its handlers act on the pair of     *)
(* structures the worker's closure captured in start_monitoring.           *)
(***************************************************************************)
RECURSIVE MarkOwners(_, _, _, _)
MarkOwners(files_v, owners, path_str, restored) ==
  IF owners = <<>> THEN files_v
  ELSE LET idx == owners[1]
           f1 == IF idx \in 1..Len(files_v)
                   THEN [files_v EXCEPT ![idx] =
                           IF restored THEN mark_path_restored(@, path_str)
                           ELSE mark_path_deleted(@, path_str)]
                   ELSE files_v
       IN MarkOwners(f1, Tail(owners), path_str, restored)

\* the set of results: the loop stops at the first mapping it finds, and the
\* HashMap decides which one is first
handle_path_created(path_str, w) ==
  LET hits == {k \in DOMAIN w.mappings :
                 w.mappings[k].current_path = path_str /\ ~w.mappings[k].exists}
  IN IF hits = {} THEN {w}
     ELSE {[w EXCEPT !.mappings[k].exists = TRUE,
                     !.files = MarkOwners(w.files, w.mappings[k].target_files,
                                          path_str, TRUE)] : k \in hits}

\* as handle_path_removed, but the mapping of a removed path is deleted from
\* the index instead of being kept with exists = false
handle_path_removed_DropsMapping(path_str, w) ==
  IF path_str \in DOMAIN w.mappings
    THEN {[w EXCEPT !.mappings = MapRemove(w.mappings, path_str),
                    !.files = MarkOwners(w.files, w.mappings[path_str].target_files,
                                         path_str, FALSE)]}
    ELSE {w}

\* as handle_path_removed, without the loop over the owning target files
handle_path_removed_MappingOnly(path_str, w) ==
  IF path_str \in DOMAIN w.mappings
    THEN {[w EXCEPT !.mappings[path_str].exists = FALSE]}
    ELSE {w}

handle_path_removed(path_str, w) ==
  IF path_str \in DOMAIN w.mappings
    THEN {[w EXCEPT !.mappings[path_str].exists = FALSE,
                    !.files = MarkOwners(w.files, w.mappings[path_str].target_files,
                                         path_str, FALSE)]}
    ELSE {w}

\* as handle_path_modified, but the path is taken for restored
handle_path_modified_Restores(path_str, w) == handle_path_created(path_str, w)

handle_path_modified(path_str, w) == {w}

\* the kinds matched by EventKind::Modify(_): a change of data and the
\* rename sub-kinds (from, to, both)
ModifyKinds == {"modify", "modify_name_from", "modify_name_to", "modify_name_both"}

RECURSIVE HandlePaths(_, _, _)
HandlePaths(kind, paths, w) ==
  IF paths = <<>> THEN {w}
  ELSE LET first == IF kind = "create" THEN handle_path_created(paths[1], w)
                    ELSE IF kind = "remove" THEN handle_path_removed(paths[1], w)
                    ELSE IF kind \in ModifyKinds THEN handle_path_modified(paths[1], w)
                    ELSE {w}
       IN UNION {HandlePaths(kind, Tail(paths), w1) : w1 \in first}

handle_event(event, w) == HandlePaths(event.kind, event.paths, w)

\* a step of a handler on one of the worker's two mutexes
LockOp(op, mutex) == [op |-> op, mutex |-> mutex]

\* the lock steps of handle_path_created in program order: the guard of
\* path_mappings lives to the end of the function, the guard of target_files
\* from the first restored mapping to the end of its block
created_locks(path_str, w) ==
  IF \E k \in DOMAIN w.mappings :
        w.mappings[k].current_path = path_str /\ ~w.mappings[k].exists
    THEN <<LockOp("lock", "path_mappings"), LockOp("lock", "target_files"),
           LockOp("unlock", "target_files"), LockOp("unlock", "path_mappings")>>
    ELSE <<LockOp("lock", "path_mappings"), LockOp("unlock", "path_mappings")>>

\* as removed_locks, but the guard of path_mappings outlives the handler (it
\* is never dropped)
removed_locks_KeepsGuard(path_str, w) ==
  IF path_str \in DOMAIN w.mappings
    THEN <<LockOp("lock", "path_mappings"), LockOp("lock", "target_files"),
           LockOp("unlock", "target_files")>>
    ELSE <<LockOp("lock", "path_mappings")>>

\* the lock steps of handle_path_removed in program order
removed_locks(path_str, w) ==
  IF path_str \in DOMAIN w.mappings
    THEN <<LockOp("lock", "path_mappings"), LockOp("lock", "target_files"),
           LockOp("unlock", "target_files"), LockOp("unlock", "path_mappings")>>
    ELSE <<LockOp("lock", "path_mappings"), LockOp("unlock", "path_mappings")>>

\* handle_path_modified takes no lock
handler_locks(kind, path_str, w) ==
  IF kind = "create" THEN created_locks(path_str, w)
  ELSE IF kind = "remove" THEN removed_locks(path_str, w)
  ELSE <<>>

\* as visit_order, but the paths of an event are visited from the last
visit_order_FromLast(paths) == [k \in 1..Len(paths) |-> paths[Len(paths) + 1 - k]]

\* for path in &event.paths
visit_order(paths) == paths

\* handle_event together with what it did: the paths it handled, in order,
\* each with the lock steps of its handler
RECURSIVE HandleLogged(_, _, _, _)
HandleLogged(kind, paths, w, log) ==
  IF paths = <<>> THEN {[w |-> w, log |-> log]}
  ELSE LET entry == [kind |-> kind, path |-> paths[1],
                     locks |-> handler_locks(kind, paths[1], w)]
       IN UNION {HandleLogged(kind, Tail(paths), w1, Append(log, entry)) :
                   w1 \in HandlePaths(kind, <<paths[1]>>, w)}

(***************************************************************************)
(* lib.rs: the ignore matcher of the watch loop.                           *)
(***************************************************************************)
\* str::contains(sub)
ContainsStr(s, sub) ==
  \E i \in 0..(Len(s) - Len(sub)) : SubSeq(s, i + 1, i + Len(sub)) = sub

\* str::ends_with(suffix)
EndsWith(s, suffix) ==
  /\ Len(suffix) <= Len(s)
  /\ SubSeq(s, Len(s) - Len(suffix) + 1, Len(s)) = suffix

\* str::replace(from, ""): every non-overlapping occurrence of from, found
\* from the left, is removed
RECURSIVE RemoveAll(_, _)
RemoveAll(s, from) ==
  IF Len(s) < Len(from) \/ from = <<>> THEN s
  ELSE IF IsPrefix(from, s)
    THEN RemoveAll(SubSeq(s, Len(from) + 1, Len(s)), from)
    ELSE <<Head(s)>> \o RemoveAll(Tail(s), from)

is_directory_pattern(pattern) == ContainsStr(pattern, <<"*", "*">>)

is_extension_pattern(pattern) == IsPrefix(<<"*", ".">>, pattern)

matches_directory_pattern(path, pattern) ==
  LET dir_pattern == RemoveAll(pattern, <<"/", "*", "*">>)
  IN ContainsStr(path, dir_pattern)

matches_extension_pattern(path, pattern) ==
  IF IsPrefix(<<"*", ".">>, pattern)
    THEN EndsWith(path, SubSeq(pattern, 3, Len(pattern)))
    ELSE FALSE

\* as matches_ignore_pattern, but the extension shape is tried before the
\* directory shape
matches_ignore_pattern_ExtensionFirst(path, pattern) ==
  IF is_extension_pattern(pattern) THEN matches_extension_pattern(path, pattern)
  ELSE IF is_directory_pattern(pattern) THEN matches_directory_pattern(path, pattern)
  ELSE ContainsStr(path, pattern)

matches_ignore_pattern(path, pattern) ==
  IF is_directory_pattern(pattern) THEN matches_directory_pattern(path, pattern)
  ELSE IF is_extension_pattern(pattern) THEN matches_extension_pattern(path, pattern)
  ELSE ContainsStr(path, pattern)

\* ignore_patterns.iter().any(..): the patterns are tried in order, up to the
\* first that matches
RECURSIVE AnyPattern(_, _)
AnyPattern(path, patterns) ==
  IF patterns = <<>> THEN FALSE
  ELSE IF matches_ignore_pattern(path, Head(patterns)) THEN TRUE
  ELSE AnyPattern(path, Tail(patterns))

\* as should_ignore_event, but only the first path of the event is looked at
should_ignore_event_FirstPath(paths, ignore_patterns) ==
  IF paths = <<>> THEN FALSE ELSE AnyPattern(Head(paths), ignore_patterns)

\* event.paths.iter().any(..): the paths are tried in order, up to the first
\* that some pattern matches
RECURSIVE should_ignore_event(_, _)
should_ignore_event(paths, ignore_patterns) ==
  IF paths = <<>> THEN FALSE
  ELSE IF AnyPattern(Head(paths), ignore_patterns) THEN TRUE
  ELSE should_ignore_event(Tail(paths), ignore_patterns)

(***************************************************************************)
(* main.rs: the watch command's own should_ignore_event, two nested loops  *)
(* that return true at the first pattern that hits.                        *)
(***************************************************************************)
\* as main_pattern_hit, but without the branch for extension patterns
main_pattern_hit_NoExtensionBranch(path_str, pattern) ==
  IF ContainsStr(pattern, <<"*", "*">>)
    THEN ContainsStr(path_str, RemoveAll(pattern, <<"/", "*", "*">>))
  ELSE ContainsStr(path_str, pattern)

\* the if / else-if chain of the inner loop's body
main_pattern_hit(path_str, pattern) ==
  IF ContainsStr(pattern, <<"*", "*">>)
    THEN LET dir_pattern == RemoveAll(pattern, <<"/", "*", "*">>)
         IN ContainsStr(path_str, dir_pattern)
  ELSE IF IsPrefix(<<"*", ".">>, pattern)
    THEN LET ext == SubSeq(pattern, 3, Len(pattern))
         IN EndsWith(path_str, ext)
  ELSE ContainsStr(path_str, pattern)

\* for pattern in ignore_patterns { .. return true .. }
RECURSIVE main_pattern_loop(_, _)
main_pattern_loop(path_str, ignore_patterns) ==
  IF ignore_patterns = <<>> THEN FALSE
  ELSE IF main_pattern_hit(path_str, Head(ignore_patterns)) THEN TRUE
  ELSE main_pattern_loop(path_str, Tail(ignore_patterns))

\* for path in &event.paths { .. } false
RECURSIVE main_should_ignore_event(_, _)
main_should_ignore_event(paths, ignore_patterns) ==
  IF paths = <<>> THEN FALSE
  ELSE IF main_pattern_loop(Head(paths), ignore_patterns) THEN TRUE
  ELSE main_should_ignore_event(Tail(paths), ignore_patterns)

(***************************************************************************)
(* config.rs: the Config value (the fields the engine and the watch loop   *)
(* read: watch_paths, recursive, ignore_patterns).                         *)
(***************************************************************************)
\* impl Default for Config
ConfigDefault ==
  [watch_paths |-> <<>>,
   recursive |-> TRUE,
   ignore_patterns |-> << <<"*", ".", "t", "m", "p">>, <<"*", ".", "l", "o", "g">>,
                          <<".", "g", "i", "t", "/", "*", "*">>,
                          <<"t", "a", "r", "g", "e", "t", "/", "*", "*">> >>]

\* Config::add_path: the path is pushed unless the list holds it already
add_path(cfg, path) ==
  IF \E i \in 1..Len(cfg.watch_paths) : cfg.watch_paths[i] = path
    THEN cfg
    ELSE [cfg EXCEPT !.watch_paths = Append(@, path)]

\* the list without its element at position pos
RemoveAt(seq, pos) ==
  [i \in 1..(Len(seq) - 1) |-> IF i < pos THEN seq[i] ELSE seq[i + 1]]

\* as remove_path, but the element taken out is the first of the list
remove_path_TakesFirst(cfg, path) ==
  IF \E i \in 1..Len(cfg.watch_paths) : cfg.watch_paths[i] = path
    THEN [cfg EXCEPT !.watch_paths = RemoveAt(@, 1)]
    ELSE cfg

\* Config::remove_path: the first occurrence of the path is taken out
remove_path(cfg, path) ==
  IF \E i \in 1..Len(cfg.watch_paths) : cfg.watch_paths[i] = path
    THEN LET pos == CHOOSE i \in 1..Len(cfg.watch_paths) :
                      /\ cfg.watch_paths[i] = path
                      /\ \A k \in 1..(i - 1) : cfg.watch_paths[k] # path
         IN [cfg EXCEPT !.watch_paths = RemoveAt(@, pos)]
    ELSE cfg

(***************************************************************************)
(* The configuration under analysis: the watch roots /w (which exists) and *)
(* /m (which does not), a JSON target file (index 1) and a CSV target file *)
(* (index 2).                                                              *)
(***************************************************************************)
pW == <<"/", "w">>
pA == <<"/", "w", "/", "a">>
pA2 == <<"/", "w", "/", "a", "2">>
pAB == <<"/", "w", "/", "a", "/", "b">>
pC == <<"/", "w", "/", "c">>
pO == <<"/", "o">>
pM == <<"/", "m">>
pOA == <<"/", "o", "/", "a">>
sName == <<"x">>
sHeader == <<"p", ",", "t">>

watch_paths == <<pW, pM>>

\* the configuration the front-end built the manager from
ConfigOf(recursive) == [ConfigDefault EXCEPT !.watch_paths = watch_paths,
                                             !.recursive = recursive]

Formats == <<"json", "csv">>

\* paths the environment creates and removes under the watch root
FsPaths == {pA, pC}

JsonNested ==
  VArr(<<VStr(pA), VArr(<<VStr(pAB)>>),
         VObj(<<[key |-> sName, val |-> VStr(pOA)]>>), VStr(sName), VNum>>)

JsonFlat == VArr(<<VStr(pA), VStr(pA2), VStr(pC)>>)

CsvLeading == <<sHeader, pA \o <<",", "d">>, pA2 \o <<",", "f">> >>

CsvMixed == <<sHeader, pC \o <<",", "f">>, sName \o <<",">> \o pAB, pA \o <<",">> \o pA>>

InitDisks ==
  { <<Content(FALSE, JsonNested), Content(TRUE, CsvLeading)>>,
    <<Content(TRUE, JsonFlat), Content(FALSE, CsvMixed)>> }

InitFs == { {pW, pA, pC}, {pW} }

\* the (old_path, new_path) arguments the front-end passes to sync_path_change
SyncArgs == { <<pA, pA>>, <<pA, pAB>>, <<pA, pC>>, <<pA, pOA>> }

\* the arguments used while the background worker runs
MonitorSyncArgs == { <<pA, pC>> }

\* the journal of the watch: the events the watcher's callback has sent and
\* the paths the worker has handled, in order; kept where the order of
\* handling is analysed and empty elsewhere
NoJournal == [sent |-> <<>>, handled |-> <<>>]

\* no event handled yet
NoSummary ==
  [kind |-> "none", path |-> <<>>, indexed |-> FALSE, was |-> "", after_remove |-> FALSE]

\* a worker thread: the structures its closure owns, its end of the channel
\* (open while the watcher that holds the sender lives), whether the thread
\* has returned, and (cur) what its last event found
Worker(files_v, mappings) ==
  [files |-> files_v, mappings |-> mappings, queue |-> <<>>, open |-> TRUE,
   exited |-> FALSE, cur |-> NoSummary]

\* the last operation: its name, its path arguments, what it found, and the
\* worker that ran it (0 for the foreground and the environment)
Last(op, a, b, info, w) == [op |-> op, a |-> a, b |-> b, info |-> info, w |-> w]

\* PathSyncManager::new over the target files on disk
InitManager ==
  /\ disk \in InitDisks
  /\ fs \in InitFs
  /\ LET m == ManagerNew(Formats, disk, watch_paths, fs)
     IN /\ target_files = m.target_files
        /\ path_mappings = m.path_mappings
  /\ manager = "alive"
  /\ watcher = FALSE
  /\ watches = {}
  /\ workers = <<>>
  /\ threads = <<>>
  /\ journal = NoJournal
  /\ last = Last("new", <<>>, <<>>, "", 0)

Init ==
  /\ InitManager
  /\ config = ConfigOf(TRUE)

\* sync_path_change(old_path, new_path) on the foreground
Sync(old_path, new_path) ==
  /\ manager = "alive"
  /\ \A k \in PathsToUpdate(path_mappings, old_path, fs) :
        Len(new_key_for(k, old_path, new_path, fs)) <= MaxPathLen
  /\ \E r \in sync_path_change(target_files, path_mappings, disk, old_path, new_path, fs) :
        /\ target_files' = r.tfs
        /\ path_mappings' = r.pm
        /\ disk' = r.disk
        /\ last' = Last("sync", old_path, new_path,
                        IF PathsToUpdate(path_mappings, old_path, fs) = {} THEN "not_found"
                        ELSE IF r.ok THEN "updated" ELSE "error", 0)
  /\ UNCHANGED <<fs, manager, watcher, workers, config, watches, threads, journal>>

\* refresh() on the foreground
Refresh ==
  /\ manager = "alive"
  /\ LET r == refresh(target_files, path_mappings, disk, watch_paths, fs)
     IN /\ target_files' = r.tfs
        /\ path_mappings' = r.pm
        /\ last' = Last("refresh", <<>>, <<>>, IF r.ok THEN "ok" ELSE "error", 0)
  /\ UNCHANGED <<disk, fs, manager, watcher, workers, config, watches, threads, journal>>

\* the watch roots that exist when start_monitoring runs (path.exists())
ExistingRoots(roots, files) ==
  {roots[i] : i \in {j \in 1..Len(roots) : PathExists(roots[j], files)}}

\* the loop over self.watch_paths: watcher.watch(path, RecursiveMode::Recursive)
\* for each root that exists; a root that does not exist is reported and
\* skipped
RegisterRoots(roots, files) ==
  {[path |-> r, mode |-> "Recursive"] : r \in ExistingRoots(roots, files)}

\* start_monitoring(): the watcher replaces the previous one (whose sender is
\* dropped with it), and a new worker thread starts on clones of the
\* manager's structures
start_monitoring(limit) ==
  /\ manager = "alive"
  /\ Len(workers) < limit
  /\ watcher' = TRUE
  /\ watches' = RegisterRoots(watch_paths, fs)
  /\ workers' = Append([i \in 1..Len(workers) |-> [workers[i] EXCEPT !.open = FALSE]],
                       Worker(target_files, path_mappings))
  /\ last' = Last("start_monitoring", <<>>, <<>>, "ok", 0)
  /\ UNCHANGED <<disk, fs, manager, target_files, path_mappings, config, threads, journal>>

\* start_monitoring() where events and renames are analysed
StartMonitoring == start_monitoring(MaxWorkers)

\* start_monitoring() where the life cycle is analysed
StartMonitoringAgain == start_monitoring(MaxStarts)

\* start_monitoring() returns Err: RecommendedWatcher::new fails (root <<>>)
\* or watcher.watch fails for a root that exists.  The new watcher and its
\* sender are dropped, self.watcher keeps the previous one and no thread is
\* spawned
StartMonitoringFails ==
  /\ manager = "alive"
  /\ \E root \in ExistingRoots(watch_paths, fs) \cup {<<>>} :
        last' = Last("start_monitoring", root, <<>>, "error", 0)
  /\ UNCHANGED <<disk, fs, manager, target_files, path_mappings, watcher, workers, config, watches, threads, journal>>

\* as DropManager, but the watcher (and with it the sender) outlives the
\* manager
DropManager_LeaksWatcher ==
  /\ manager = "alive"
  /\ manager' = "dropped"
  /\ target_files' = <<>>
  /\ path_mappings' = EmptyMap
  /\ last' = Last("drop", <<>>, <<>>, "", 0)
  /\ UNCHANGED <<disk, fs, watcher, workers, config, watches, threads, journal>>

\* the manager value is dropped: its fields go with it, the watcher among
\* them, and with the watcher the sender of the live worker's channel
DropManager ==
  /\ manager = "alive"
  /\ manager' = "dropped"
  /\ target_files' = <<>>
  /\ path_mappings' = EmptyMap
  /\ watcher' = FALSE
  /\ watches' = {}
  /\ workers' = [i \in 1..Len(workers) |-> [workers[i] EXCEPT !.open = FALSE]]
  /\ last' = Last("drop", <<>>, <<>>, "", 0)
  /\ UNCHANGED <<disk, fs, config, threads, journal>>

\* a notify::Event, with a note of whether the manager's index held the path
\* when the event arose
Event(kind, p) ==
  [kind |-> kind, paths |-> <<p>>, indexed |-> p \in DOMAIN path_mappings]

\* the watcher's callback sends the event to the worker of the live watcher;
\* a recursive watch reports every path under its root
Enqueue(event) ==
  IF watcher /\ \E r \in watches : PathStartsWith(event.paths[1], r.path)
    THEN /\ Len(workers[Len(workers)].queue) < MaxQueue
         /\ workers' = [workers EXCEPT ![Len(workers)].queue = Append(@, event)]
    ELSE UNCHANGED workers

FsCreate(p) ==
  /\ p \notin fs
  /\ fs' = fs \cup {p}
  /\ Enqueue(Event("create", p))
  /\ last' = Last("fs_create", p, <<>>, "", 0)
  /\ UNCHANGED <<disk, manager, target_files, path_mappings, watcher, config, watches, threads, journal>>

FsRemove(p) ==
  /\ p \in fs
  /\ fs' = fs \ {p}
  /\ Enqueue(Event("remove", p))
  /\ last' = Last("fs_remove", p, <<>>, "", 0)
  /\ UNCHANGED <<disk, manager, target_files, path_mappings, watcher, config, watches, threads, journal>>

\* what the event found in the worker's mapping of the event's path, and
\* whether the event the worker handled just before was a Remove of the same
\* path that found the mapping existing
Summary(event, w) ==
  [kind |-> event.kind, path |-> event.paths[1], indexed |-> event.indexed,
   was |-> IF event.paths[1] \in DOMAIN w.mappings
             THEN (IF w.mappings[event.paths[1]].exists THEN "existing" ELSE "missing")
             ELSE "untracked",
   after_remove |-> /\ w.cur.kind = "remove"
                    /\ w.cur.path = event.paths[1]
                    /\ w.cur.was = "existing"]

\* one iteration of the worker's loop: receive the next event and handle it
WorkerHandle(i) ==
  /\ i \in 1..Len(workers)
  /\ ~workers[i].exited
  /\ workers[i].queue # <<>>
  /\ LET w == workers[i]
         event == Head(w.queue)
     IN \E w1 \in handle_event(event, w) :
          workers' = [workers EXCEPT ![i] =
                        [w1 EXCEPT !.queue = Tail(w.queue),
                                   !.cur = Summary(event, w)]]
  /\ last' = Last("handle", Head(workers[i].queue).paths[1], <<>>,
                  Head(workers[i].queue).kind, i)
  /\ UNCHANGED <<disk, fs, manager, target_files, path_mappings, watcher, config, watches, threads, journal>>

\* as send, but the event overtakes the events that wait in the channel
send_Overtaking(queue, event) == <<event>> \o queue

\* tx.send(event) on the mpsc channel
send(queue, event) == Append(queue, event)

\* the watcher's callback receives an event from the OS and sends it to the
\* worker; the journal notes it
Notify(kind, paths) ==
  /\ watcher
  /\ workers # <<>>
  /\ Len(journal.sent) < MaxEvents
  /\ Len(workers[Len(workers)].queue) < MaxPending
  /\ LET event == [kind |-> kind, paths |-> paths,
                   indexed |-> paths[1] \in DOMAIN path_mappings]
     IN /\ workers' = [workers EXCEPT ![Len(workers)].queue = send(@, event)]
        /\ journal' = [journal EXCEPT !.sent = Append(@, [kind |-> kind, paths |-> paths])]
  /\ last' = Last("notify", paths[1], <<>>, kind, 0)
  /\ UNCHANGED <<disk, fs, manager, target_files, path_mappings, watcher, config, watches, threads>>

\* one iteration of the worker's loop, noted in the journal
WorkerHandleLogged(i) ==
  /\ i \in 1..Len(workers)
  /\ ~workers[i].exited
  /\ workers[i].queue # <<>>
  /\ LET w == workers[i]
         event == Head(w.queue)
     IN \E r \in HandleLogged(event.kind, visit_order(event.paths), w, <<>>) :
          /\ workers' = [workers EXCEPT ![i] =
                           [r.w EXCEPT !.queue = Tail(w.queue),
                                       !.cur = Summary(event, w)]]
          /\ journal' = [journal EXCEPT !.handled = @ \o r.log]
  /\ last' = Last("handle", Head(workers[i].queue).paths[1], <<>>,
                  Head(workers[i].queue).kind, i)
  /\ UNCHANGED <<disk, fs, manager, target_files, path_mappings, watcher, config, watches, threads>>

\* the worker's loop ends: the channel is disconnected and drained, so the
\* iteration over rx is over, the thread returns and its closure is dropped
WorkerExit(i) ==
  /\ i \in 1..Len(workers)
  /\ ~workers[i].exited
  /\ ~workers[i].open
  /\ workers[i].queue = <<>>
  /\ workers' = [workers EXCEPT ![i] =
                   [Worker(<<>>, EmptyMap) EXCEPT !.open = FALSE, !.exited = TRUE]]
  /\ last' = Last("exit", <<>>, <<>>, "", i)
  /\ UNCHANGED <<disk, fs, manager, target_files, path_mappings, watcher, config, watches, threads, journal>>

\* the live manager with its background worker: renames on the foreground,
\* events in the background
Next ==
  \/ \E a \in MonitorSyncArgs : Sync(a[1], a[2])
  \/ StartMonitoring
  \/ \E p \in FsPaths : FsCreate(p)
  \/ \E p \in FsPaths : FsRemove(p)
  \/ \E i \in 1..MaxWorkers : WorkerHandle(i)

\* monitoring is analysed from the construction with every path present
InitMonitor ==
  /\ Init
  /\ disk = <<Content(FALSE, JsonNested), Content(TRUE, CsvLeading)>>
  /\ fs = {pW, pA, pC}

Spec == InitMonitor /\ [][Next]_vars

\* the path that comes and goes while the life cycle is analysed
LifeFsPaths == {pA}

\* the life cycle of the manager and its workers: start_monitoring (which
\* may fail), the drop of the manager, and the worker threads, each of which
\* the scheduler runs again and again while it has a step to take
NextLife ==
  \/ StartMonitoringAgain
  \/ StartMonitoringFails
  \/ DropManager
  \/ \E p \in LifeFsPaths : FsCreate(p)
  \/ \E p \in LifeFsPaths : FsRemove(p)
  \/ \E i \in 1..MaxStarts : WorkerHandle(i)
  \/ \E i \in 1..MaxStarts : WorkerExit(i)

\* the life cycle is analysed for both values of the recursive flag
InitLife ==
  /\ InitManager
  /\ disk = <<Content(FALSE, JsonNested), Content(TRUE, CsvLeading)>>
  /\ fs = {pW, pA, pC}
  /\ config \in {ConfigOf(TRUE), ConfigOf(FALSE)}

SpecLife ==
  /\ InitLife
  /\ [][NextLife]_vars
  /\ \A i \in 1..MaxStarts : WF_vars(WorkerHandle(i)) /\ WF_vars(WorkerExit(i))

(***************************************************************************)
(* The worker thread step by step: it receives an event, and each handler  *)
(* call takes and drops its mutexes one step at a time; a lock step waits  *)
(* while the mutex is held.  The journal carries the run of the handler    *)
(* (the event's kind, the paths still to handle, the lock steps still to   *)
(* take), the mutexes held and the number of events handled to the end.    *)
(***************************************************************************)
NoRun == [kind |-> "none", paths |-> <<>>, steps |-> <<>>]

\* the handler call for the first of the paths, or the end of the event
RunOf(kind, paths, w) ==
  IF paths = <<>> THEN NoRun
  ELSE [kind |-> kind, paths |-> paths, steps |-> handler_locks(kind, paths[1], w)]

\* for event in rx: the worker, between two events, receives the next one
\* and enters the handler of its first path
WorkerReceive(i) ==
  /\ i \in 1..Len(workers)
  /\ ~workers[i].exited
  /\ workers[i].queue # <<>>
  /\ journal.run = NoRun
  /\ LET event == Head(workers[i].queue)
         run == RunOf(event.kind, visit_order(event.paths), workers[i])
     IN /\ workers' = [workers EXCEPT ![i].queue = Tail(@)]
        /\ journal' = [journal EXCEPT !.run = run,
                                      !.done = IF run = NoRun THEN @ + 1 ELSE @]
        /\ last' = Last("receive", event.paths[1], <<>>, event.kind, i)
  /\ UNCHANGED <<disk, fs, manager, target_files, path_mappings, watcher, config,
                 watches, threads>>

\* mutex.lock(), which waits while the mutex is held, or the drop of a guard
WorkerLockStep(i) ==
  /\ i \in 1..Len(workers)
  /\ journal.run # NoRun
  /\ journal.run.steps # <<>>
  /\ LET step == Head(journal.run.steps)
     IN /\ step.op = "lock" => step.mutex \notin journal.held
        /\ journal' = [journal EXCEPT
                         !.run.steps = Tail(@),
                         !.held = IF step.op = "lock" THEN @ \cup {step.mutex}
                                  ELSE @ \ {step.mutex}]
        /\ last' = Last(step.op, journal.run.paths[1], <<>>, step.mutex, i)
  /\ UNCHANGED <<disk, fs, manager, target_files, path_mappings, watcher, workers,
                 config, watches, threads>>

\* the handler of the current path returns, its changes made; the worker
\* goes on to the next path of the event or, after the last, back to rx
WorkerReturn(i) ==
  /\ i \in 1..Len(workers)
  /\ journal.run # NoRun
  /\ journal.run.steps = <<>>
  /\ LET run == journal.run
     IN \E w1 \in HandlePaths(run.kind, <<run.paths[1]>>, workers[i]) :
          LET next == RunOf(run.kind, Tail(run.paths), w1)
          IN /\ workers' = [workers EXCEPT ![i] = w1]
             /\ journal' = [journal EXCEPT !.run = next,
                                           !.done = IF next = NoRun THEN @ + 1 ELSE @]
             /\ last' = Last("return", run.paths[1], <<>>, run.kind, i)
  /\ UNCHANGED <<disk, fs, manager, target_files, path_mappings, watcher, config,
                 watches, threads>>

\* the events the watcher reports while the worker's steps are analysed
StepEvents ==
  { <<"remove", <<pA>>>>, <<"create", <<pA>>>>, <<"remove", <<pC, pA>>>>,
    <<"modify", <<pA>>>> }

\* the manager after new() and start_monitoring(), the worker waiting on rx
InitStep ==
  /\ disk = <<Content(FALSE, JsonNested), Content(TRUE, CsvLeading)>>
  /\ fs = {pW, pA, pC}
  /\ LET m == ManagerNew(Formats, disk, watch_paths, fs)
     IN /\ target_files = m.target_files
        /\ path_mappings = m.path_mappings
        /\ workers = <<Worker(m.target_files, m.path_mappings)>>
  /\ manager = "alive"
  /\ watcher = TRUE
  /\ watches = RegisterRoots(watch_paths, fs)
  /\ threads = <<>>
  /\ config = ConfigOf(TRUE)
  /\ journal = [sent |-> <<>>, handled |-> <<>>, run |-> NoRun, held |-> {},
                done |-> 0]
  /\ last = Last("start_monitoring", <<>>, <<>>, "ok", 0)

NextStep ==
  \/ \E e \in StepEvents : Notify(e[1], e[2])
  \/ WorkerReceive(1)
  \/ WorkerLockStep(1)
  \/ WorkerReturn(1)

\* the worker is a thread of its own (thread::spawn): the scheduler runs it
\* again and again while it has a step it can take
SpecStep ==
  /\ InitStep
  /\ [][NextStep]_vars
  /\ WF_vars(WorkerReceive(1))
  /\ WF_vars(WorkerLockStep(1))
  /\ WF_vars(WorkerReturn(1))

\* the events the watcher reports while the order of handling is analysed
OrderEvents ==
  {<<k, ps>> : k \in {"create", "remove", "modify"},
               ps \in {<<pA>>, <<pA, pC>>, <<pC, pA>>}}
  \cup {<<k, <<pA>>>> : k \in {"modify_name_from", "modify_name_to", "access", "other"}}
  \cup {<<"modify_name_both", <<pA, pC>>>>}

\* the manager after new() and start_monitoring(): one watcher, one worker;
\* the configuration ignores c/** besides the default patterns
InitOrder ==
  /\ disk = <<Content(FALSE, JsonNested), Content(TRUE, CsvLeading)>>
  /\ fs = {pW, pA, pC}
  /\ LET m == ManagerNew(Formats, disk, watch_paths, fs)
     IN /\ target_files = m.target_files
        /\ path_mappings = m.path_mappings
        /\ workers = <<Worker(m.target_files, m.path_mappings)>>
  /\ manager = "alive"
  /\ watcher = TRUE
  /\ watches = RegisterRoots(watch_paths, fs)
  /\ threads = <<>>
  /\ config = [ConfigOf(TRUE) EXCEPT !.ignore_patterns = Append(@, <<"c", "/", "*", "*">>)]
  /\ journal = NoJournal
  /\ last = Last("start_monitoring", <<>>, <<>>, "ok", 0)

NextOrder ==
  \/ \E e \in OrderEvents : Notify(e[1], e[2])
  \/ WorkerHandleLogged(1)

SpecOrder == InitOrder /\ [][NextOrder]_vars

\* the manager used from the foreground only (state Loaded)
NextSync ==
  \/ \E a \in SyncArgs : Sync(a[1], a[2])
  \/ Refresh
  \/ \E p \in FsPaths : FsCreate(p)
  \/ \E p \in FsPaths : FsRemove(p)

SpecSync == Init /\ [][NextSync]_vars

(***************************************************************************)
(* The manager and the edits made to its target files from outside:        *)
(* construction from files that may be missing or unreadable, refresh(),   *)
(* sync_path_change() and an editor that rewrites or deletes a file.       *)
(***************************************************************************)
\* a CSV file whose second record has one field more than the header
CsvUneven == <<sHeader, pA \o <<",", "d", ",", "e">> >>

\* the extensions of the two target files handed to new()
ConstructFormats == { <<"json", "csv">>, <<"json", "txt">> }

\* the files on disk when new() is called
ConstructDisks ==
  { <<Content(FALSE, JsonNested), Content(TRUE, CsvLeading)>>,
    <<Content(TRUE, JsonFlat), Content(FALSE, CsvMixed)>>,
    <<Absent(VNum), Content(FALSE, CsvUneven)>>,
    <<Malformed(VNum), Absent(<<>>)>> }

\* what an editor can leave in target file f
EditContents(f) ==
  IF f = 1
    THEN {Malformed(VNum), Absent(VNum), Content(FALSE, VArr(<<VStr(pC), VStr(pC)>>))}
    ELSE {Malformed(<<>>), Content(FALSE, CsvUneven), Content(FALSE, CsvLeading)}

RefreshSyncArgs == { <<pA, pC>> }

\* the path that comes and goes while the files are edited
RefreshFsPaths == {pA}

InitRefresh ==
  /\ fs = {pW, pA, pC}
  /\ \E fm \in ConstructFormats : \E d \in ConstructDisks :
        LET m == ManagerNew(fm, d, watch_paths, fs)
        IN /\ disk = m.disk
           /\ target_files = m.target_files
           /\ path_mappings = m.path_mappings
           /\ manager = IF m.ok THEN "alive" ELSE "none"
           /\ last = Last("new", <<>>, <<>>, IF m.ok THEN "ok" ELSE "error", 0)
  /\ watcher = FALSE
  /\ watches = {}
  /\ workers = <<>>
  /\ threads = <<>>
  /\ journal = NoJournal
  /\ config = ConfigOf(TRUE)

\* a target file is rewritten or deleted outside the engine
Edit(f, c) ==
  /\ f \in 1..Len(disk)
  /\ disk[f] # c
  /\ disk' = [disk EXCEPT ![f] = c]
  /\ last' = Last("edit", <<>>, <<>>, c.st, 0)
  /\ UNCHANGED <<fs, manager, target_files, path_mappings, watcher, workers, config, watches, threads, journal>>

NextRefresh ==
  \/ \E f \in 1..2 : \E c \in EditContents(f) : Edit(f, c)
  \/ Refresh
  \/ \E a \in RefreshSyncArgs : Sync(a[1], a[2])
  \/ \E p \in RefreshFsPaths : FsCreate(p)
  \/ \E p \in RefreshFsPaths : FsRemove(p)

SpecRefresh == InitRefresh /\ [][NextRefresh]_vars

(***************************************************************************)
(* One Target File on its own: TargetFile::new, update_path and a fresh    *)
(* load, for each of the four formats.                                     *)
(***************************************************************************)
TreeBodies ==
  { VObj(<<[key |-> sName, val |-> JsonNested]>>),
    VObj(<<[key |-> sName, val |-> JsonFlat], [key |-> pA, val |-> VStr(pC)]>>) }

CsvQuoted ==
  <<sHeader, <<"\"">> \o pA \o <<"\"", ",", "d">>, pC \o <<",", "f">> >>

UpdateFiles ==
  { <<f, Content(c, b)>> : f \in {"json", "yaml", "toml"}, c \in BOOLEAN, b \in TreeBodies }
  \cup { <<"csv", Content(c, b)>> : c \in BOOLEAN, b \in {CsvLeading, CsvMixed, CsvQuoted} }

\* the (old_path, new_path) arguments of update_path
UpdateArgs == { <<pA, pC>>, <<pA, pA>>, <<pAB, pOA>>, <<pC, sName>>, <<pA2, pA>> }

InitUpdate ==
  /\ fs \in InitFs
  /\ \E u \in UpdateFiles :
        /\ disk = <<u[2]>>
        /\ target_files = <<TargetFileNew(u[1], u[2], fs)>>
  /\ path_mappings = EmptyMap
  /\ manager = "alive"
  /\ watcher = FALSE
  /\ watches = {}
  /\ workers = <<>>
  /\ threads = <<>>
  /\ journal = NoJournal
  /\ config = ConfigOf(TRUE)
  /\ last = Last("new", <<>>, <<>>, "", 0)

HasEntry(tf, p) == \E i \in 1..Len(tf.paths) : tf.paths[i].path = p

UpdatePath(old_path, new_path) ==
  /\ LET r == update_path(target_files[1], disk[1], old_path, new_path, fs)
     IN /\ target_files' = <<r.tf>>
        /\ disk' = <<r.content>>
  /\ last' = Last("update_path", old_path, new_path,
                  IF HasEntry(TargetFileNew(target_files[1].format, disk[1], fs), old_path)
                    THEN "loaded" ELSE "absent", 0)
  /\ UNCHANGED <<fs, manager, path_mappings, watcher, workers, config, watches, threads, journal>>

Reload ==
  /\ target_files' = <<TargetFileNew(target_files[1].format, disk[1], fs)>>
  /\ last' = Last("load", <<>>, <<>>, "", 0)
  /\ UNCHANGED <<disk, fs, manager, path_mappings, watcher, workers, config, watches, threads, journal>>

NextUpdate ==
  \/ \E a \in UpdateArgs : UpdatePath(a[1], a[2])
  \/ Reload

SpecUpdate == InitUpdate /\ [][NextUpdate]_vars

(***************************************************************************)
(* One Target File that becomes unreadable after it was loaded: update_path*)
(* on a file whose rewrite fails.                                          *)
(***************************************************************************)
\* the file is damaged outside the engine: reading or parsing it fails from
\* now on
Corrupt ==
  /\ disk[1].st = "ok"
  /\ disk' = <<Malformed(disk[1].body)>>
  /\ last' = Last("edit", <<>>, <<>>, "malformed", 0)
  /\ UNCHANGED <<fs, manager, target_files, path_mappings, watcher, workers, config, watches, threads, journal>>

NextRewrite ==
  \/ \E a \in UpdateArgs : UpdatePath(a[1], a[2])
  \/ Corrupt

SpecRewrite == InitUpdate /\ [][NextRewrite]_vars

(***************************************************************************)
(* One Target File whose entries are marked deleted and restored, as the   *)
(* event handlers do for the files that own a path.                        *)
(***************************************************************************)
\* the path arguments of mark_path_deleted and mark_path_restored
MarkArgs == {pA, pC, pAB, sName}

MarkDeleted(path) ==
  /\ target_files' = <<mark_path_deleted(target_files[1], path)>>
  /\ last' = Last("mark_path_deleted", path, <<>>, "", 0)
  /\ UNCHANGED <<disk, fs, manager, path_mappings, watcher, workers, config, watches, threads, journal>>

MarkRestored(path) ==
  /\ target_files' = <<mark_path_restored(target_files[1], path)>>
  /\ last' = Last("mark_path_restored", path, <<>>, "", 0)
  /\ UNCHANGED <<disk, fs, manager, path_mappings, watcher, workers, config, watches, threads, journal>>

NextMark ==
  \/ \E p \in MarkArgs : MarkDeleted(p)
  \/ \E p \in MarkArgs : MarkRestored(p)

SpecMark == InitUpdate /\ [][NextMark]_vars

(***************************************************************************)
(* The watch loop and its ignore patterns: every event the loop receives   *)
(* is either dropped (ignored) or handled.                                 *)
(***************************************************************************)
qGit == <<"/", "g", "/", "c">>
qGitU == <<"/", "G", "/", "c">>
qAB == <<"/", "a", "/", "b">>
qAXB == <<"/", "a", "/", "x", "/", "b">>
qT == <<"/", "f", ".", "t">>
qTU == <<"/", "f", ".", "T">>
qFt == <<"/", "f", "t">>
qStar == <<"/", "*", ".", "a">>

tExt == <<"*", ".", "t">>
tExtU == <<"*", ".", "T">>
tDir == <<"g", "/", "*", "*">>
tMid == <<"a", "/", "*", "*", "/", "b">>
tBoth == <<"*", ".", "a", "/", "*", "*">>
tSub == <<"x", "/">>
tEmpty == <<>>

\* the paths an event can carry and the patterns a configuration can hold
IgnorePaths == {qGit, qGitU, qAB, qAXB, qT, qTU, qFt, qStar}

IgnorePatterns == {tExt, tExtU, tDir, tMid, tBoth, tSub, tEmpty}

\* events with no path, one path and two paths
IgnoreEvents ==
  {<<>>} \cup {<<p>> : p \in IgnorePaths} \cup {<<p, q>> : p, q \in IgnorePaths}

\* pattern lists with no pattern, one pattern and two patterns
PatternLists ==
  {<<>>} \cup {<<p>> : p \in IgnorePatterns} \cup {<<p, q>> : p, q \in IgnorePatterns}

InitIgnore ==
  /\ config \in {[ConfigDefault EXCEPT !.ignore_patterns = l] : l \in PatternLists}
  /\ disk = <<>>
  /\ fs = {}
  /\ target_files = <<>>
  /\ path_mappings = EmptyMap
  /\ manager = "none"
  /\ watcher = FALSE
  /\ watches = {}
  /\ workers = <<>>
  /\ threads = <<>>
  /\ journal = NoJournal
  /\ last = Last("new", <<>>, <<>>, "", 0)

\* the library's should_ignore_event applied to an event under the
\* configured patterns: the event is dropped when it says so and handled
\* otherwise
WatchEvent(paths) ==
  /\ last' = Last("event", paths, <<>>,
                  IF should_ignore_event(paths, config.ignore_patterns)
                    THEN "ignored" ELSE "handled", 0)
  /\ UNCHANGED <<disk, fs, manager, target_files, path_mappings, watcher, workers,
                 config, watches, threads, journal>>

\* one iteration of the watch command's loop: the event is skipped when
\* main.rs's own should_ignore_event says so and handled otherwise
WatchLoop(paths) ==
  /\ last' = Last("watch", paths, <<>>,
                  IF main_should_ignore_event(paths, config.ignore_patterns)
                    THEN "ignored" ELSE "handled", 0)
  /\ UNCHANGED <<disk, fs, manager, target_files, path_mappings, watcher, workers,
                 config, watches, threads, journal>>

NextIgnore ==
  \/ \E paths \in IgnoreEvents : WatchEvent(paths)
  \/ \E paths \in IgnoreEvents : WatchLoop(paths)

SpecIgnore == InitIgnore /\ [][NextIgnore]_vars

(***************************************************************************)
(* TargetFile::new on a file that holds one arbitrary string next to the   *)
(* path /w/a: which strings become entries.                                *)
(***************************************************************************)
StrChars == {"/", "\\", ".", "~", "C", ":", "x"}

\* every string of at most MaxStrLen characters
Strs == UNION {[1..n -> StrChars] : n \in 0..MaxStrLen}

\* the file that holds s and /w/a, as a JSON array or as a CSV record
LoadContent(format, s) ==
  IF format = "json"
    THEN Content(FALSE, VArr(<<VStr(s), VStr(pA)>>))
    ELSE Content(FALSE, <<sHeader, s \o <<",">> \o pA>>)

\* new() has determined the format (from_path) and is about to read the file
InitLoad ==
  /\ fs = {pW, pA}
  /\ \E format \in {"json", "csv"} : \E s \in Strs :
        /\ disk = <<LoadContent(format, s)>>
        /\ last = Last("from_path", s, <<>>, format, 0)
  /\ target_files = <<>>
  /\ path_mappings = EmptyMap
  /\ manager = "none"
  /\ watcher = FALSE
  /\ watches = {}
  /\ workers = <<>>
  /\ threads = <<>>
  /\ journal = NoJournal
  /\ config = ConfigOf(TRUE)

\* extract_paths and the construction of the TargetFile
Load ==
  /\ last.op = "from_path"
  /\ target_files' = <<TargetFileNew(last.info, disk[1], fs)>>
  /\ last' = Last("load", last.a, <<>>, last.info, 0)
  /\ UNCHANGED <<disk, fs, manager, path_mappings, watcher, workers, config, watches, threads, journal>>

NextLoad == Load

SpecLoad == InitLoad /\ [][NextLoad]_vars

(***************************************************************************)
(* A Config shared by threads behind a mutex: each thread adds a path of   *)
(* its own and removes it again, MaxIters times; each critical section     *)
(* (lock, one call, unlock) is one step.                                   *)
(***************************************************************************)
Digit(n) == <<"0", "1", "2", "3", "4", "5", "6", "7", "8", "9">>[n + 1]

\* format!("/thread{}/path{}", i, j), abbreviated to /t{i}/p{j}
ThreadPath(i, j) == <<"/", "t", Digit(i), "/", "p", Digit(j)>>

\* a thread at the start of its loop
Thread == [j |-> 0, pc |-> "add"]

InitConfig ==
  /\ config = ConfigDefault
  /\ threads = [i \in 1..MaxThreads |-> Thread]
  /\ journal = NoJournal
  /\ disk = <<>>
  /\ fs = {}
  /\ target_files = <<>>
  /\ path_mappings = EmptyMap
  /\ manager = "none"
  /\ watcher = FALSE
  /\ watches = {}
  /\ workers = <<>>
  /\ last = Last("new", <<>>, <<>>, "", 0)

\* thread i, first critical section: cfg.add_path(path.clone())
ThreadAdd(i) ==
  /\ threads[i].pc = "add"
  /\ config' = add_path(config, ThreadPath(i - 1, threads[i].j))
  /\ threads' = [threads EXCEPT ![i].pc = "remove"]
  /\ last' = Last("add_path", ThreadPath(i - 1, threads[i].j), <<>>, "", i)
  /\ UNCHANGED <<disk, fs, manager, target_files, path_mappings, watcher, workers, watches, journal>>

\* thread i, second critical section: cfg.remove_path(&path); then the next
\* iteration, or the end of the thread
ThreadRemove(i) ==
  /\ threads[i].pc = "remove"
  /\ config' = remove_path(config, ThreadPath(i - 1, threads[i].j))
  /\ threads' = [threads EXCEPT ![i] =
                    [j |-> @.j + 1, pc |-> IF @.j + 1 < MaxIters THEN "add" ELSE "done"]]
  /\ last' = Last("remove_path", ThreadPath(i - 1, threads[i].j), <<>>, "", i)
  /\ UNCHANGED <<disk, fs, manager, target_files, path_mappings, watcher, workers, watches, journal>>

\* the main thread has joined every handle and reads the final Config
JoinAll ==
  /\ last.op # "join"
  /\ \A i \in 1..MaxThreads : threads[i].pc = "done"
  /\ last' = Last("join", <<>>, <<>>, "", 0)
  /\ UNCHANGED <<disk, fs, manager, target_files, path_mappings, watcher, workers,
                 config, watches, threads, journal>>

NextConfig ==
  \/ \E i \in 1..MaxThreads : ThreadAdd(i)
  \/ \E i \in 1..MaxThreads : ThreadRemove(i)
  \/ JoinAll

SpecConfig == InitConfig /\ [][NextConfig]_vars

(***************************************************************************)
(* Vocabulary of the properties.                                           *)
(***************************************************************************)
\* k is old itself or a component-wise descendant of old
AtOrUnder(k, old) == k = old \/ PathStartsWith(k, old)

\* new in place of old, new joined with the unchanged remainder below old
Renamed(k, old, new) ==
  IF k = old THEN new
  ELSE IF PathStartsWith(k, old) THEN PathJoin(new, StripPrefix(k, old).rel)
  ELSE k

\* the paths a fresh load of target file f finds in the contents d
FilePaths(f, d) ==
  LET es == extract_paths(target_files[f].format, d[f], fs)
  IN [j \in 1..Len(es) |-> es[j].path]

\* rooted under at least one watch root
UnderWatchRoot(p) == \E i \in 1..Len(watch_paths) : PathStartsWith(p, watch_paths[i])

Owners(m) == {m.target_files[j] : j \in 1..Len(m.target_files)}

(***************************************************************************)
(* C1: after sync_path_change(old, new) on an index that holds old, the    *)
(* index holds new in place of old and new joined with the remainder in    *)
(* place of each descendant, and every owning JSON/YAML/TOML target file   *)
(* holds that replacement wherever it held the old key (the rows of a CSV  *)
(* file are the subject of C10 and C12).                                   *)
(***************************************************************************)
C1_PrefixPropagation ==
  [][ (last'.op = "sync" /\ last'.a \in DOMAIN path_mappings) =>
        /\ DOMAIN path_mappings' =
             {Renamed(k, last'.a, last'.b) : k \in DOMAIN path_mappings}
        /\ \A k \in DOMAIN path_mappings : \A f \in Owners(path_mappings[k]) :
             (AtOrUnder(k, last'.a) /\ target_files[f].format # "csv") =>
               /\ Len(FilePaths(f, disk')) = Len(FilePaths(f, disk))
               /\ \A j \in 1..Len(FilePaths(f, disk)) :
                     FilePaths(f, disk)[j] = k =>
                       FilePaths(f, disk')[j] = Renamed(k, last'.a, last'.b) ]_vars

(***************************************************************************)
(* C2: once the worker has handled a Remove or Create event for an indexed *)
(* path, get_path_status on the manager reports the new existence flag.    *)
(***************************************************************************)
C2_ManagerSeesEvents ==
  (last.op = "handle" /\ last.info \in {"remove", "create"}
     /\ last.a \in DOMAIN path_mappings) =>
    \E st \in get_path_status(target_files, path_mappings) :
       st[1] = last.a /\ st[2] = (last.info = "create")

(***************************************************************************)
(* C3: after sync_path_change moved a mapping from old to new, the worker  *)
(* that handles a Remove event for new (an event that arose after the      *)
(* move) marks that mapping missing, and a Remove event for old that arose *)
(* after the move finds nothing to change.                                 *)
(***************************************************************************)
C3_WorkerSeesRenames ==
  (last.op = "handle" /\ last.info = "remove") =>
    LET w == workers[last.w]
    IN /\ (w.cur.indexed /\ last.a \in DOMAIN path_mappings
             /\ path_mappings[last.a].original_path # last.a) =>
            (last.a \in DOMAIN w.mappings /\ ~w.mappings[last.a].exists)
       /\ (~w.cur.indexed /\ last.a \notin DOMAIN path_mappings
             /\ \E k \in DOMAIN path_mappings : path_mappings[k].original_path = last.a) =>
            w.cur.was = "untracked"

(***************************************************************************)
(* C4: an entry of a target file has its path as a key of the Path Index   *)
(* exactly when the path is rooted under a watch root.                     *)
(***************************************************************************)
C4_FilteringInvariant ==
  \A f \in 1..Len(target_files) : \A j \in 1..Len(target_files[f].paths) :
     (target_files[f].paths[j].path \in DOMAIN path_mappings)
       <=> UnderWatchRoot(target_files[f].paths[j].path)

(***************************************************************************)
(* C5: every key of the Path Index equals the current_path of its mapping. *)
(***************************************************************************)
C5_KeyIsCurrentPath ==
  \A k \in DOMAIN path_mappings : path_mappings[k].current_path = k

\* a mapping that sync_path_change has moved to a new key
C5_Witness ==
  /\ last.op = "sync"
  /\ \E k \in DOMAIN path_mappings : path_mappings[k].original_path # k

(***************************************************************************)
(* C6: a Remove event for a tracked path whose mapping exists marks the    *)
(* mapping and the matching entries of every owning target file missing;   *)
(* a Create event for a tracked path whose mapping is missing marks them   *)
(* existing again.  (The structures are the ones the handlers are given.)  *)
(***************************************************************************)
MarkedAs(w, p, flag) ==
  /\ p \in DOMAIN w.mappings
  /\ w.mappings[p].exists = flag
  /\ \A f \in Owners(w.mappings[p]) : \A j \in 1..Len(w.files[f].paths) :
        w.files[f].paths[j].path = p => w.files[f].paths[j].exists = flag

C6_RemoveThenCreate ==
  last.op = "handle" =>
    LET w == workers[last.w]
    IN /\ (last.info = "remove" /\ w.cur.was = "existing") => MarkedAs(w, last.a, FALSE)
       /\ (last.info = "create" /\ w.cur.was = "missing") => MarkedAs(w, last.a, TRUE)

\* a Create handled right after a Remove of the same path, which two target
\* files own
C6_Witness ==
  /\ last.op = "handle" /\ last.info = "create"
  /\ LET w == workers[last.w]
     IN /\ w.cur.was = "missing"
        /\ w.cur.after_remove
        /\ MarkedAs(w, last.a, TRUE)
        /\ Cardinality(Owners(w.mappings[last.a])) >= 2
        /\ \A f \in Owners(w.mappings[last.a]) : HasEntry(w.files[f], last.a)

(***************************************************************************)
(* C7: sync_path_change(old, new) on an index with no key at or under old  *)
(* changes neither the index nor any target file's entries or content.     *)
(***************************************************************************)
C7_UntrackedIsNoOp ==
  [][ (last'.op = "sync"
         /\ \A k \in DOMAIN path_mappings : ~AtOrUnder(k, last'.a)) =>
        UNCHANGED <<path_mappings, target_files, disk>> ]_vars

\* such a call on an index that is not empty
C7_Witness ==
  /\ last.op = "sync" /\ last.info = "not_found"
  /\ DOMAIN path_mappings # {}
  /\ \A k \in DOMAIN path_mappings : ~AtOrUnder(k, last.a)

(***************************************************************************)
(* C8 as stated: sync_path_change(p, p) on an indexed p leaves the bytes   *)
(* of every target file and the Path Index unchanged.                      *)
(***************************************************************************)
C8_Original ==
  [][ (last'.op = "sync" /\ last'.a = last'.b /\ last'.a \in DOMAIN path_mappings) =>
        UNCHANGED <<disk, path_mappings>> ]_vars

(***************************************************************************)
(* C8 as amended: sync_path_change(p, p) on an indexed p leaves the parsed *)
(* document of every target file and the keys, owners, original_path and   *)
(* current_path of the Path Index unchanged; exists of the mappings at or  *)
(* under p is read again from the filesystem.                              *)
(***************************************************************************)
C8_SelfSyncKeepsPaths ==
  [][ (last'.op = "sync" /\ last'.a = last'.b /\ last'.a \in DOMAIN path_mappings) =>
        /\ \A f \in 1..Len(disk) : disk'[f].body = disk[f].body
        /\ DOMAIN path_mappings' = DOMAIN path_mappings
        /\ \A k \in DOMAIN path_mappings :
             path_mappings'[k] =
               IF AtOrUnder(k, last'.a)
                 THEN [path_mappings[k] EXCEPT !.exists = PathExists(k, fs)]
                 ELSE path_mappings[k] ]_vars

\* a self-sync that found p and a descendant of p in the index
C8_Witness ==
  /\ last.op = "sync" /\ last.a = last.b /\ last.info = "updated"
  /\ last.a \in DOMAIN path_mappings
  /\ \E k \in DOMAIN path_mappings : k # last.a /\ AtOrUnder(k, last.a)

(***************************************************************************)
(* C9: sync_path_change(old, new) keeps, in the Path Index and in every    *)
(* target file's content, every path that is neither old nor a             *)
(* component-wise descendant of old.                                       *)
(***************************************************************************)
C9_Frame ==
  [][ last'.op = "sync" =>
        /\ \A k \in DOMAIN path_mappings :
             ~AtOrUnder(k, last'.a) => k \in DOMAIN path_mappings'
        /\ \A f \in 1..Len(disk) : \A j \in 1..Len(FilePaths(f, disk)) :
             ~AtOrUnder(FilePaths(f, disk)[j], last'.a) =>
               /\ Len(FilePaths(f, disk')) = Len(FilePaths(f, disk))
               /\ FilePaths(f, disk')[j] = FilePaths(f, disk)[j] ]_vars

\* P is the whole unquoted leading field of every data row whose text
\* starts with P, and no other field of any data row is P
CsvOnlyLeading(lines, P) ==
  \A n \in 2..Len(lines) :
     /\ IsPrefix(P, lines[n]) => (Len(lines[n]) = Len(P) \/ lines[n][Len(P) + 1] = ",")
     /\ \A j \in 1..Len(CsvFields(lines[n])) :
          CsvFields(lines[n])[j] = P => (j = 1 /\ IsPrefix(P, lines[n]))

\* a string the load keeps and a CSV row holds as one unquoted field
PlainPath(Q) ==
  /\ ContainsChar(Q, "/") \/ ContainsChar(Q, "\\")
  /\ ~ContainsChar(Q, ",") /\ ~ContainsChar(Q, "\"")

(***************************************************************************)
(* C10 as stated: when the loaded entries of a target file include P, a    *)
(* fresh load after update_path(P, Q) yields no entry P and some entry Q   *)
(* (Q a path other than P), whatever the format and wherever P occurs.     *)
(***************************************************************************)
C10_Original ==
  (last.op = "update_path" /\ last.info = "loaded"
     /\ last.a # last.b /\ PlainPath(last.b)) =>
    /\ \A j \in 1..Len(FilePaths(1, disk)) : FilePaths(1, disk)[j] # last.a
    /\ \E j \in 1..Len(FilePaths(1, disk)) : FilePaths(1, disk)[j] = last.b

(***************************************************************************)
(* C10 as amended: for Q a path-like string other than P, a fresh load     *)
(* after update_path(P, Q) yields no entry P and some entry Q when the     *)
(* file is JSON, YAML or TOML (P at any nesting level), and when it is CSV *)
(* provided P occurs in it only as the unquoted leading field of data rows *)
(* and no other data row starts with the text P.                           *)
(***************************************************************************)
C10_RoundTrip ==
  [][ (last'.op = "update_path" /\ last'.info = "loaded"
         /\ last'.a # last'.b /\ PlainPath(last'.b)
         /\ (target_files[1].format = "csv" => CsvOnlyLeading(disk[1].body, last'.a))) =>
        /\ \A j \in 1..Len(FilePaths(1, disk')) : FilePaths(1, disk')[j] # last'.a
        /\ \E j \in 1..Len(FilePaths(1, disk')) : FilePaths(1, disk')[j] = last'.b ]_vars

\* P replaced inside a nested array of a tree, and in a CSV row
C10_Witness ==
  /\ last.op = "update_path" /\ last.info = "loaded" /\ last.a = pAB /\ last.b = pOA
  /\ target_files[1].format = "toml"
  /\ \E j \in 1..Len(FilePaths(1, disk)) : FilePaths(1, disk)[j] = pOA
  /\ \A j \in 1..Len(FilePaths(1, disk)) : FilePaths(1, disk)[j] # pAB

(***************************************************************************)
(* C11: update_path(old, new) on a JSON, YAML or TOML target file replaces *)
(* exactly the scalar string values equal to old by new and leaves every   *)
(* other value, every key and the structure of the document unchanged,     *)
(* also a value that contains old as a proper substring.                   *)
(***************************************************************************)
\* the scalar strings of a document, in document order
RECURSIVE Scalars(_)
Scalars(v) ==
  IF v.k = "s" THEN <<v.s>>
  ELSE IF v.k = "a" THEN
    LET RECURSIVE Each(_)
        Each(items) == IF items = <<>> THEN <<>>
                       ELSE Scalars(items[1]) \o Each(Tail(items))
    IN Each(v.items)
  ELSE IF v.k = "o" THEN
    LET RECURSIVE EachF(_)
        EachF(fields) == IF fields = <<>> THEN <<>>
                         ELSE Scalars(fields[1].val) \o EachF(Tail(fields))
    IN EachF(v.fields)
  ELSE <<>>

\* the document with every scalar string blanked: its structure and keys
RECURSIVE Shape(_)
Shape(v) ==
  IF v.k = "s" THEN VStr(<<>>)
  ELSE IF v.k = "a" THEN VArr([i \in 1..Len(v.items) |-> Shape(v.items[i])])
  ELSE IF v.k = "o" THEN
    VObj([i \in 1..Len(v.fields) |->
            [key |-> v.fields[i].key, val |-> Shape(v.fields[i].val)]])
  ELSE v

C11_ExactMatch ==
  [][ (last'.op = "update_path" /\ target_files[1].format # "csv") =>
        LET before == Scalars(disk[1].body)
            after == Scalars(disk'[1].body)
        IN /\ Shape(disk'[1].body) = Shape(disk[1].body)
           /\ Len(after) = Len(before)
           /\ \A j \in 1..Len(before) :
                 after[j] = IF before[j] = last'.a THEN last'.b ELSE before[j] ]_vars

\* /w/a was replaced in a document that also holds /w/a2 and the key /w/a
C11_Witness ==
  /\ last.op = "update_path" /\ last.info = "loaded" /\ last.a = pA /\ last.b = pC
  /\ target_files[1].format = "yaml"
  /\ \E j \in 1..Len(Scalars(disk[1].body)) : Scalars(disk[1].body)[j] = pA2
  /\ \A j \in 1..Len(Scalars(disk[1].body)) : Scalars(disk[1].body)[j] # pA
  /\ disk[1].body.k = "o"
  /\ \E i \in 1..Len(disk[1].body.fields) : disk[1].body.fields[i].key = pA

(***************************************************************************)
(* C12: update_path(old, new) on a CSV target file keeps the header line,  *)
(* replaces the leading span of each data row whose leading field equals   *)
(* old by new, and keeps every other data row, also a row whose leading    *)
(* field merely starts with old.                                           *)
(***************************************************************************)
\* the text of a row up to its first separator (the replacement is
\* line-oriented and knows no quoting)
LeadingField(line) == SubSeq(line, 1, FirstIndex(line, ",") - 1)

C12_CsvLeadingField ==
  [][ (last'.op = "update_path" /\ target_files[1].format = "csv"
         /\ disk[1].body # <<>>) =>
        LET lines == disk[1].body
            after == disk'[1].body
        IN /\ Len(after) = Len(lines)
           /\ after[1] = lines[1]
           /\ \A n \in 2..Len(lines) :
                 after[n] = IF LeadingField(lines[n]) = last'.a
                              THEN last'.b \o SubSeq(lines[n], Len(last'.a) + 1,
                                                     Len(lines[n]))
                              ELSE lines[n] ]_vars

(***************************************************************************)
(* C13: after construct or a successful refresh, each indexed path has     *)
(* exactly one mapping, the indexed paths are the entries rooted under a   *)
(* watch root, and the owners of a mapping are exactly the target files    *)
(* that have an entry with its path.                                       *)
(***************************************************************************)
Rebuilt ==
  /\ manager = "alive"
  /\ last.op = "new" \/ (last.op = "refresh" /\ last.info = "ok")

\* the paths of the entries of the target files
EntryPaths(tfs) ==
  UNION {{tfs[f].paths[j].path : j \in 1..Len(tfs[f].paths)} : f \in 1..Len(tfs)}

C13_OwnersFanIn ==
  Rebuilt =>
    /\ DOMAIN path_mappings = {p \in EntryPaths(target_files) : UnderWatchRoot(p)}
    /\ \A p \in DOMAIN path_mappings :
          /\ Cardinality({k \in DOMAIN path_mappings :
                            path_mappings[k].current_path = p}) = 1
          /\ Owners(path_mappings[p]) =
               {f \in 1..Len(target_files) : HasEntry(target_files[f], p)}

\* a refresh that indexed a path two target files hold
C13_Witness ==
  /\ manager = "alive" /\ last.op = "refresh" /\ last.info = "ok"
  /\ \E p \in DOMAIN path_mappings :
        /\ Cardinality(Owners(path_mappings[p])) = 2
        /\ \A f \in 1..2 : HasEntry(target_files[f], p)

(***************************************************************************)
(* C14: no target file is listed twice in the owners of a mapping, so      *)
(* get_path_status names each owning file once.                            *)
(***************************************************************************)
NoRepeat(seq) == \A i, j \in 1..Len(seq) : i # j => seq[i] # seq[j]

C14_OwnersAreASet ==
  \A st \in get_path_status(target_files, path_mappings) : NoRepeat(st[3])

(***************************************************************************)
(* C15: handling a filesystem event adds no key to and removes no key from *)
(* the index the handlers are given and changes no mapping's original_path,*)
(* current_path or owners; a Remove of a tracked path sets exists to false *)
(* and keeps the mapping, a later Create of that path sets it to true      *)
(* again, and an event for an untracked path changes nothing.  The         *)
(* manager's own index is not changed by any event either.                 *)
(***************************************************************************)
SameButExists(m1, m0) == [m1 EXCEPT !.exists = m0.exists] = m0

C15_EventsKeepTheIndex ==
  [][ (last'.op \in {"fs_create", "fs_remove", "handle"} =>
         UNCHANGED <<path_mappings, target_files>>)
      /\ (last'.op = "handle" =>
            LET w0 == workers[last'.w]
                w1 == workers'[last'.w]
                p == last'.a
            IN /\ DOMAIN w1.mappings = DOMAIN w0.mappings
               /\ \A k \in DOMAIN w0.mappings :
                     /\ SameButExists(w1.mappings[k], w0.mappings[k])
                     /\ k # p => w1.mappings[k] = w0.mappings[k]
               /\ (p \in DOMAIN w0.mappings /\ last'.info = "remove") =>
                     ~w1.mappings[p].exists
               /\ (p \in DOMAIN w0.mappings /\ last'.info = "create") =>
                     w1.mappings[p].exists
               /\ p \notin DOMAIN w0.mappings =>
                     (w1.mappings = w0.mappings /\ w1.files = w0.files)) ]_vars

\* the mapping of a removed path was kept and a Create for the path found it
C15_Witness ==
  /\ last.op = "handle" /\ last.info = "create"
  /\ workers[last.w].cur.after_remove
  /\ workers[last.w].cur.was = "missing"
  /\ last.a \in DOMAIN workers[last.w].mappings
  /\ workers[last.w].mappings[last.a].exists
  /\ workers[last.w].mappings[last.a].current_path = last.a

(***************************************************************************)
(* C16: after a successful refresh the target file entries and the index   *)
(* equal what new() builds from the files now on disk with the same watch  *)
(* roots: every key is a path some file holds now, its exists flag is what *)
(* the filesystem says now, and its original_path is the key.              *)
(***************************************************************************)
C16_RefreshEqualsConstruct ==
  (manager = "alive" /\ last.op = "refresh" /\ last.info = "ok") =>
    LET m == ManagerNew([f \in 1..Len(target_files) |-> target_files[f].format],
                        disk, watch_paths, fs)
    IN /\ m.ok
       /\ target_files = m.target_files
       /\ path_mappings = m.path_mappings
       /\ \A k \in DOMAIN path_mappings :
             /\ path_mappings[k].original_path = k
             /\ path_mappings[k].exists = PathExists(k, fs)
             /\ \E f \in 1..Len(disk) : \E j \in 1..Len(FilePaths(f, disk)) :
                   FilePaths(f, disk)[j] = k

\* a refresh after the JSON file was rewritten outside and /w/a was removed:
\* /w/a is still indexed for the CSV file and reported missing, /w/a/b is
\* indexed no more
C16_Witness ==
  /\ manager = "alive" /\ last.op = "refresh" /\ last.info = "ok"
  /\ disk[1].body = VArr(<<VStr(pC), VStr(pC)>>)
  /\ pA \in DOMAIN path_mappings /\ ~path_mappings[pA].exists
  /\ pAB \notin DOMAIN path_mappings

(***************************************************************************)
(* C17: a construct that fails to load a target file yields no manager,    *)
(* and a refresh that fails to load a target file leaves the manager's     *)
(* target file entries and index as they were before the call.             *)
(***************************************************************************)
C17_FailedLoadCommitsNothing ==
  /\ (last.op = "new" /\ last.info = "error") =>
        (manager = "none" /\ target_files = <<>> /\ path_mappings = EmptyMap)
  /\ [][ (last'.op = "refresh" /\ last'.info = "error") =>
            UNCHANGED <<target_files, path_mappings>> ]_vars

(***************************************************************************)
(* C19: once the manager is dropped its watch handle is gone and every     *)
(* channel is closed, and every worker eventually exits; a worker does not *)
(* exit while the manager is alive and holds the watch handle that feeds   *)
(* the worker's channel.                                                   *)
(***************************************************************************)
AllExited == \A i \in 1..Len(workers) : workers[i].exited

C19_DropStopsWorker ==
  /\ [](manager = "dropped" =>
           (~watcher /\ \A i \in 1..Len(workers) : ~workers[i].open))
  /\ [](\A i \in 1..Len(workers) :
           (manager = "alive" /\ watcher /\ i = Len(workers)) => ~workers[i].exited)
  /\ [](\A i \in 1..Len(workers) : workers[i].exited => ~workers[i].open)
  /\ (manager = "dropped" ~> AllExited)

\* the worker of a dropped manager has exited
C19_Witness ==
  /\ manager = "dropped"
  /\ workers # <<>>
  /\ AllExited
  /\ last.op = "exit" /\ last.w = Len(workers)

(***************************************************************************)
(* C20: a successful start_monitoring call spawns exactly one worker, and  *)
(* at most one worker of the manager is live at any time.  A worker counts *)
(* as live while its thread has not returned and it either can still       *)
(* receive events or still has events to handle.                           *)
(***************************************************************************)
Live(w) == ~w.exited /\ (w.open \/ w.queue # <<>>)

C20_OneLiveWorker ==
  /\ [][ (last'.op = "start_monitoring" /\ last'.info = "ok") =>
            Len(workers') = Len(workers) + 1 ]_vars
  /\ [](Cardinality({i \in 1..Len(workers) : Live(workers[i])}) <= 1)

(***************************************************************************)
(* C21: a start_monitoring call that fails to register the OS watch for an *)
(* existing watch root returns the error, spawns no worker and leaves the  *)
(* manager without a watch handle (Loaded, not Monitoring); a watch root   *)
(* that does not exist is skipped without error (the call succeeds and the *)
(* missing root is not registered).                                        *)
(***************************************************************************)
C21_FailedStartLeavesLoaded ==
  /\ [][ (last'.op = "start_monitoring" /\ last'.info = "error") =>
            /\ workers' = workers
            /\ ~watcher'
            /\ watches' = {} ]_vars
  /\ [][ (last'.op = "start_monitoring" /\ last'.info = "ok") =>
            /\ watcher'
            /\ \A r \in watches' : PathExists(r.path, fs) ]_vars

(***************************************************************************)
(* C22: start_monitoring registers every existing watch root in the mode   *)
(* given by the configuration's recursive flag: recursive when the flag is *)
(* true, non-recursive when it is false.                                   *)
(***************************************************************************)
ModeOf(recursive) == IF recursive THEN "Recursive" ELSE "NonRecursive"

C22_ModeFollowsConfig ==
  [][ (last'.op = "start_monitoring" /\ last'.info = "ok") =>
         watches' = {[path |-> r, mode |-> ModeOf(config.recursive)] :
                       r \in ExistingRoots(watch_paths, fs)} ]_vars

(***************************************************************************)
(* C23: mark_path_deleted(p) sets exists to false and mark_path_restored(p)*)
(* sets exists to true on exactly the entries whose path equals p; no      *)
(* other entry changes, no path or last_known_path field changes, and the  *)
(* Target File on disk is not written.                                     *)
(***************************************************************************)
OnlyExistsSet(old, new, p, flag) ==
  /\ new.format = old.format
  /\ Len(new.paths) = Len(old.paths)
  /\ \A i \in 1..Len(old.paths) :
        /\ new.paths[i].path = old.paths[i].path
        /\ new.paths[i].last_known_path = old.paths[i].last_known_path
        /\ new.paths[i].exists =
              (IF old.paths[i].path = p THEN flag ELSE old.paths[i].exists)

C23_MarkTogglesExistsOnly ==
  [][ /\ last'.op = "mark_path_deleted" =>
           /\ OnlyExistsSet(target_files[1], target_files'[1], last'.a, FALSE)
           /\ disk' = disk
      /\ last'.op = "mark_path_restored" =>
           /\ OnlyExistsSet(target_files[1], target_files'[1], last'.a, TRUE)
           /\ disk' = disk ]_vars

\* /w/a, held by two entries of the file, has been marked deleted while it
\* and /w/c are on the filesystem: both entries are marked, /w/c is not
C23_Witness ==
  /\ last.op = "mark_path_deleted" /\ last.a = pA
  /\ {pA, pC} \subseteq fs
  /\ Cardinality({i \in 1..Len(target_files[1].paths) :
                     target_files[1].paths[i].path = pA}) = 2
  /\ \A i \in 1..Len(target_files[1].paths) :
        target_files[1].paths[i].path = pA => ~target_files[1].paths[i].exists
  /\ \E i \in 1..Len(target_files[1].paths) :
        target_files[1].paths[i].path = pC /\ target_files[1].paths[i].exists

(***************************************************************************)
(* C24 as stated: the ignore match is decided by the shape of the pattern: *)
(* a pattern containing ** matches when the path contains the pattern with *)
(* its trailing /** stripped; otherwise a pattern starting with *. matches *)
(* when the path ends with the text after *.; otherwise the pattern        *)
(* matches when the path contains it verbatim; case-sensitive.             *)
(***************************************************************************)
StripTrailing(pattern) ==
  IF EndsWith(pattern, <<"/", "*", "*">>)
    THEN SubSeq(pattern, 1, Len(pattern) - 3)
    ELSE pattern

MatchByShape(path, pattern, Directory(_)) ==
  IF \E i \in 1..(Len(pattern) - 1) : pattern[i] = "*" /\ pattern[i + 1] = "*"
    THEN ContainsStr(path, Directory(pattern))
  ELSE IF Len(pattern) >= 2 /\ pattern[1] = "*" /\ pattern[2] = "."
    THEN EndsWith(path, SubSeq(pattern, 3, Len(pattern)))
  ELSE ContainsStr(path, pattern)

\* the event of one path under a configuration of one pattern
OnePair == last.op = "event" /\ Len(last.a) = 1 /\ Len(config.ignore_patterns) = 1

C24_Original ==
  OnePair =>
    /\ matches_ignore_pattern(last.a[1], config.ignore_patterns[1])
          = MatchByShape(last.a[1], config.ignore_patterns[1], StripTrailing)
    /\ (last.info = "ignored")
          = MatchByShape(last.a[1], config.ignore_patterns[1], StripTrailing)

(***************************************************************************)
(* C24, amended: as stated, except that a pattern containing ** matches    *)
(* when the path contains the pattern with every occurrence of /** removed *)
(* (not only a trailing one).                                              *)
(***************************************************************************)
StripEvery(pattern) == RemoveAll(pattern, <<"/", "*", "*">>)

C24_MatchByShape ==
  /\ OnePair =>
       /\ matches_ignore_pattern(last.a[1], config.ignore_patterns[1])
             = MatchByShape(last.a[1], config.ignore_patterns[1], StripEvery)
       /\ (last.info = "ignored")
             = MatchByShape(last.a[1], config.ignore_patterns[1], StripEvery)
  /\ last.op = "event" =>
       \A i \in 1..Len(last.a) : \A j \in 1..Len(config.ignore_patterns) :
          matches_ignore_pattern(last.a[i], config.ignore_patterns[j])
            = MatchByShape(last.a[i], config.ignore_patterns[j], StripEvery)

\* /a/b is ignored under the pattern a/**/b, whose /** is not at the end
C24_Witness ==
  /\ OnePair
  /\ config.ignore_patterns[1] = tMid
  /\ last.a[1] = qAB
  /\ last.info = "ignored"

(***************************************************************************)
(* C25: should_ignore_event(event, patterns) is true if and only if some   *)
(* path of the event matches some pattern; it is false for an empty        *)
(* pattern list and for an event with no paths, and its result does not    *)
(* depend on the order of the patterns or of the event's paths.            *)
(***************************************************************************)
Reordered(seq) ==
  {[i \in 1..Len(seq) |-> seq[f[i]]] : f \in Permutations(1..Len(seq))}

C25_AnyPathAnyPattern ==
  last.op = "event" =>
    LET paths == last.a
        patterns == config.ignore_patterns
        ignored == (last.info = "ignored")
    IN /\ last.info \in {"ignored", "handled"}
       /\ ignored = (\E i \in 1..Len(paths) : \E j \in 1..Len(patterns) :
                        matches_ignore_pattern(paths[i], patterns[j]))
       /\ patterns = <<>> => ~ignored
       /\ paths = <<>> => ~ignored
       /\ \A ps \in Reordered(paths) : \A ts \in Reordered(patterns) :
             should_ignore_event(ps, ts) = ignored

\* the event is ignored because of its second path, which only the second
\* pattern matches
C25_Witness ==
  /\ last.op = "event"
  /\ last.a = <<qAXB, qT>>
  /\ config.ignore_patterns = <<tDir, tExt>>
  /\ last.info = "ignored"
  /\ ~matches_ignore_pattern(qAXB, tDir) /\ ~matches_ignore_pattern(qAXB, tExt)
  /\ ~matches_ignore_pattern(qT, tDir)

(***************************************************************************)
(* C26 as stated: the path-likeness predicate used by load is true for     *)
(* exactly the strings that contain a path separator (/ or \), start with  *)
(* ./, ../, ~/ or /, or have a drive-letter prefix, and false for every    *)
(* other string including the empty string; only strings for which it is   *)
(* true become Path Entries.                                               *)
(***************************************************************************)
HasSeparator(s) == \E i \in 1..Len(s) : s[i] \in {"/", "\\"}

HasLeadingMarker(s) ==
  \E m \in {<<".", "/">>, <<".", ".", "/">>, <<"~", "/">>, <<"/">>} :
     Len(s) >= Len(m) /\ \A i \in 1..Len(m) : s[i] = m[i]

DriveLetterPrefix(s) == Len(s) >= 2 /\ s[1] = "C" /\ s[2] = ":"

\* the entries a load of the file holding s and /w/a must produce when
\* exactly the strings satisfying Like become entries
EntriesIf(Like(_), s) ==
  (IF Like(s) THEN <<MkEntry(s, fs)>> ELSE <<>>) \o <<MkEntry(pA, fs)>>

C26_Original ==
  LET Like(s) == s # <<>> /\ (HasSeparator(s) \/ HasLeadingMarker(s) \/ DriveLetterPrefix(s))
  IN /\ last.op \in {"from_path", "load"} => looks_like_path(last.a) = Like(last.a)
     /\ last.op = "load" => target_files[1].paths = EntriesIf(Like, last.a)

(***************************************************************************)
(* C26, amended: the predicate is true for exactly the non-empty strings   *)
(* that contain a path separator (/ or \) or start with ./, ../, ~/ or /,  *)
(* and, in a build for Windows only, also for the strings of more than two *)
(* characters whose second character is a colon; only strings for which it *)
(* is true become Path Entries.                                            *)
(***************************************************************************)
C26_PathLikeness ==
  LET LikeOn(w, s) == /\ s # <<>>
                      /\ \/ HasSeparator(s)
                         \/ HasLeadingMarker(s)
                         \/ (w /\ Len(s) > 2 /\ s[2] = ":")
      Like(s) == LikeOn(Windows, s)
  IN /\ last.op \in {"from_path", "load"} =>
          \A w \in BOOLEAN : looks_like_path_on(w, last.a) = LikeOn(w, last.a)
     /\ last.op = "load" => target_files[1].paths = EntriesIf(Like, last.a)

\* a file holding C:x and /w/a has been loaded by a build that is not for
\* Windows: C:x is no entry
C26_Witness ==
  /\ last.op = "load"
  /\ last.a = <<"C", ":", "x">>
  /\ ~Windows
  /\ target_files[1].paths = <<MkEntry(pA, fs)>>

HeldAfter(locks, n) ==
  {m \in {"path_mappings", "target_files"} :
     \E a \in 1..n : /\ locks[a] = LockOp("lock", m)
                      /\ \A b \in (a + 1)..n : locks[b] # LockOp("unlock", m)}

C28_OneLockAtATime ==
  \A k \in 1..Len(journal.handled) :
     \A n \in 0..Len(journal.handled[k].locks) :
        Cardinality(HeldAfter(journal.handled[k].locks, n)) <= 1

(***************************************************************************)
(* C29: the worker handles events in the order in which they were          *)
(* enqueued, one at a time: the handling of an event begins only after the *)
(* handling of the previous one has finished, and the paths of one event   *)
(* are handled in list order.                                              *)
(***************************************************************************)
\* the paths of a sequence of events, event after event, each in list order
RECURSIVE PathsInOrder(_)
PathsInOrder(events) ==
  IF events = <<>> THEN <<>>
  ELSE [k \in 1..Len(events[1].paths) |-> [kind |-> events[1].kind, path |-> events[1].paths[k]]]
         \o PathsInOrder(Tail(events))

HandledPaths ==
  [k \in 1..Len(journal.handled) |->
     [kind |-> journal.handled[k].kind, path |-> journal.handled[k].path]]

\* the events sent and not yet received by the worker
Pending == IF workers = <<>> THEN <<>> ELSE workers[Len(workers)].queue

C29_HandledInArrivalOrder ==
  /\ Len(Pending) <= Len(journal.sent)
  /\ HandledPaths
       = PathsInOrder(SubSeq(journal.sent, 1, Len(journal.sent) - Len(Pending)))
  /\ [k \in 1..Len(Pending) |-> [kind |-> Pending[k].kind, paths |-> Pending[k].paths]]
       = SubSeq(journal.sent, Len(journal.sent) - Len(Pending) + 1, Len(journal.sent))

\* the worker has just handled the second of three events, which waited in
\* the channel together with the third; the first event had two paths,
\* /w/c before /w/a
C29_Witness ==
  /\ last.op = "handle"
  /\ Len(journal.sent) = 3
  /\ Len(Pending) = 1
  /\ journal.sent[1].paths = <<pC, pA>>
  /\ journal.sent[2] # journal.sent[3]
  /\ Len(journal.handled) >= 3
  /\ journal.handled[1].path = pC /\ journal.handled[2].path = pA

(***************************************************************************)
(* C30: update_path(old, new) sets, on every entry whose path equals old,  *)
(* path to new and last_known_path to old, leaves all other entries        *)
(* unchanged, and does so before the file is rewritten: the entry change   *)
(* is in effect also when the rewrite then fails (and nothing is written). *)
(***************************************************************************)
C30_EntriesFirst ==
  [][ last'.op = "update_path" =>
        LET old == last'.a
            new == last'.b
            P == target_files[1].paths
            Q == target_files'[1].paths
        IN /\ Len(Q) = Len(P)
           /\ \A i \in 1..Len(P) :
                 IF P[i].path = old
                   THEN Q[i].path = new /\ Q[i].last_known_path = old
                   ELSE Q[i] = P[i]
           /\ update_fails(target_files[1].format, disk[1]) => disk' = disk ]_vars

\* update_path(/w/a, /w/c) has run on a file that cannot be read back: the
\* entry is renamed although the file still is as it was
C30_Witness ==
  /\ last.op = "update_path" /\ last.a = pA /\ last.b = pC
  /\ disk[1].st = "malformed"
  /\ \E i \in 1..Len(target_files[1].paths) :
        /\ target_files[1].paths[i].path = pC
        /\ target_files[1].paths[i].last_known_path = pA

(***************************************************************************)
(* C31: a Modify, Access or Other event leaves the Path Index and all      *)
(* Target Files (entries and on-disk content) unchanged, whatever paths it *)
(* carries, the rename-from and rename-to sub-kinds of Modify included.    *)
(***************************************************************************)
C31_OtherEventsChangeNothing ==
  [][ (last'.op = "handle" /\ last'.info \notin {"create", "remove"}) =>
        /\ workers'[last'.w].files = workers[last'.w].files
        /\ workers'[last'.w].mappings = workers[last'.w].mappings
        /\ UNCHANGED <<target_files, path_mappings, disk>> ]_vars

\* the worker has handled a rename-to event for /w/a, which it holds as
\* missing: the mapping and the entries still say missing
C31_Witness ==
  /\ last.op = "handle" /\ last.info = "modify_name_to" /\ last.a = pA
  /\ pA \in DOMAIN workers[last.w].mappings
  /\ ~workers[last.w].mappings[pA].exists
  /\ \E f \in 1..Len(workers[last.w].files) :
        \E k \in 1..Len(workers[last.w].files[f].paths) :
           /\ workers[last.w].files[f].paths[k].path = pA
           /\ ~workers[last.w].files[f].paths[k].exists

(***************************************************************************)
(* C32: an event that should_ignore_event classifies as ignored under the  *)
(* configured ignore patterns is filtered out before the background worker *)
(* handles it, so it never changes an existence flag in the Path Index or  *)
(* in a Target File.                                                       *)
(***************************************************************************)
C32_IgnoredEventsAreFiltered ==
  [][ (/\ last'.op = "handle"
       /\ should_ignore_event(Head(workers[last'.w].queue).paths,
                               config.ignore_patterns)) =>
        /\ workers'[last'.w].files = workers[last'.w].files
        /\ workers'[last'.w].mappings = workers[last'.w].mappings ]_vars

(***************************************************************************)
(* C33: in every state reachable through construct, sync_path_change       *)
(* (successful or failed with an update_path error), refresh and events,   *)
(* for each Path Index key k and each owner f of its mapping, Target File  *)
(* f has an entry whose path equals k.                                     *)
(***************************************************************************)
OwnersHoldKey(pm, tfs) ==
  \A k \in DOMAIN pm :
     \A n \in 1..Len(pm[k].target_files) :
        /\ pm[k].target_files[n] \in 1..Len(tfs)
        /\ HasEntry(tfs[pm[k].target_files[n]], k)

C33_OwnersHoldTheirKey ==
  /\ manager = "alive" => OwnersHoldKey(path_mappings, target_files)
  /\ \A i \in 1..Len(workers) :
        ~workers[i].exited => OwnersHoldKey(workers[i].mappings, workers[i].files)

(***************************************************************************)
(* C34: the Path Index and the Target File contents that result from       *)
(* sync_path_change(old, new) do not depend on the order in which the hash *)
(* map yields the matching mappings, also when new is a descendant of old  *)
(* or equals another indexed key.                                          *)
(***************************************************************************)
\* what one call leaves behind: the index, the entries and the files
Outcome(r) == [pm |-> r.pm, tfs |-> r.tfs, disk |-> r.disk]

Outcomes(old_path, new_path) ==
  {Outcome(r) : r \in sync_path_change(target_files, path_mappings, disk,
                                       old_path, new_path, fs)}

C34_OrderIndependent ==
  manager = "alive" =>
    \A a \in SyncArgs : Cardinality(Outcomes(a[1], a[2])) = 1

(***************************************************************************)
(* A manager whose keys have different owners: t.json holds /w/a and       *)
(* /w/a/b, t.csv holds /w/c and /w/a/b.                                    *)
(***************************************************************************)
CsvTarget == <<sHeader, pC \o <<",", "f">>, pAB \o <<",", "d">> >>

InitMerge ==
  /\ disk = <<Content(TRUE, JsonNested), Content(TRUE, CsvTarget)>>
  /\ fs \in InitFs
  /\ LET m == ManagerNew(Formats, disk, watch_paths, fs)
     IN /\ target_files = m.target_files
        /\ path_mappings = m.path_mappings
  /\ manager = "alive"
  /\ watcher = FALSE
  /\ watches = {}
  /\ workers = <<>>
  /\ threads = <<>>
  /\ config = ConfigOf(TRUE)
  /\ journal = NoJournal
  /\ last = Last("new", <<>>, <<>>, "", 0)

SpecMerge == InitMerge /\ [][NextSync]_vars

(***************************************************************************)
(* C35: when sync_path_change moves a mapping to a key that is already     *)
(* present in the Path Index (and that the call does not move itself), the *)
(* mapping found at that key afterwards has among its owners every owner   *)
(* of the moved mapping and every owner of the mapping that was there.     *)
(***************************************************************************)
C35_OwnersAreMerged ==
  [][ (last'.op = "sync" /\ last'.info = "updated") =>
        \A k \in PathsToUpdate(path_mappings, last'.a, fs) :
           LET nk == new_key_for(k, last'.a, last'.b, fs)
           IN (/\ nk # k
               /\ nk \in DOMAIN path_mappings
               /\ nk \notin PathsToUpdate(path_mappings, last'.a, fs)) =>
                 /\ nk \in DOMAIN path_mappings'
                 /\ Owners(path_mappings[k]) \cup Owners(path_mappings[nk])
                      \subseteq Owners(path_mappings'[nk]) ]_vars

(***************************************************************************)
(* C36: within one copy of the state (the manager's, or a worker's), after *)
(* any interleaving of Create and Remove events, sync_path_change and      *)
(* refresh, the exists flag of a mapping equals the exists flag of every   *)
(* entry with that path in each Target File that owns the mapping.         *)
(***************************************************************************)
ExistsAgree(pm, tfs) ==
  \A k \in DOMAIN pm :
     \A f \in Owners(pm[k]) \cap (1..Len(tfs)) :
        \A n \in 1..Len(tfs[f].paths) :
           tfs[f].paths[n].path = k => tfs[f].paths[n].exists = pm[k].exists

C36_ExistsFlagsAgree ==
  /\ manager = "alive" => ExistsAgree(path_mappings, target_files)
  /\ \A i \in 1..Len(workers) :
        ~workers[i].exited => ExistsAgree(workers[i].mappings, workers[i].files)

(***************************************************************************)
(* C37: the library's should_ignore_event and the watch command's own      *)
(* should_ignore_event return the same result for every event and every    *)
(* pattern list.                                                           *)
(***************************************************************************)
C37_SameVerdict ==
  last.op = "watch" =>
    /\ (last.info = "ignored") = should_ignore_event(last.a, config.ignore_patterns)
    /\ \A paths \in IgnoreEvents :
          main_should_ignore_event(paths, config.ignore_patterns)
            = should_ignore_event(paths, config.ignore_patterns)

\* the watch command has skipped an event whose first path no pattern hits
\* and whose second path only the extension pattern hits
C37_Witness ==
  /\ last.op = "watch"
  /\ last.a = <<qAXB, qT>>
  /\ config.ignore_patterns = <<tDir, tExt>>
  /\ last.info = "ignored"
  /\ ~main_pattern_loop(qAXB, config.ignore_patterns)
  /\ ~main_pattern_hit(qT, tDir)

(***************************************************************************)
(* C38: the background worker cannot deadlock: every handler acquires its  *)
(* locks in the same order (Path Index, then Target Files) and has         *)
(* released them when it returns, so under fair scheduling every enqueued  *)
(* event is eventually handled to the end while the channel is open.       *)
(***************************************************************************)
\* the Target Files lock is only held under the Path Index lock, and no lock
\* is held between two handler calls
LocksInOrder ==
  /\ "target_files" \in journal.held => "path_mappings" \in journal.held
  /\ (journal.run = NoRun \/ last.op \in {"receive", "return"}) => journal.held = {}

C38_NoDeadlock ==
  /\ []LocksInOrder
  /\ \A n \in 1..MaxEvents : (Len(journal.sent) >= n) ~> (journal.done >= n)

\* every event the watcher can send has been sent and handled to the end,
\* a handler has held both locks for the last one, and the worker waits on
\* rx again with no lock held
C38_Witness ==
  /\ Len(journal.sent) = MaxEvents
  /\ journal.done = MaxEvents
  /\ journal.sent[MaxEvents] = [kind |-> "remove", paths |-> <<pC, pA>>]
  /\ last.op = "return" /\ last.a = pA
  /\ journal.run = NoRun /\ journal.held = {}
  /\ ~workers[1].mappings[pA].exists

====
